---- MODULE Spec2Model ----
(***************************************************************************)
(* SourceMind: the paper-analysis workflow (src/src/graph.py), its node    *)
(* functions (src/src/nodes.py) and its two callers (src/app.py,           *)
(* src/main.py).                                                           *)
(*                                                                         *)
(* A text is a sequence of tokens (strings); the empty text is <<>>.       *)
(* A Python dict is a function whose domain is the set of keys present.    *)
(***************************************************************************)
EXTENDS Integers, Sequences, FiniteSets, TLC

VARIABLES
    mode,               \* "idle" | "interactive" (app.py) | "batch" (main.py) | "standalone" (app.py's
                        \* round table on a stored result) | "node" (a node function called on its own)
    pc,                 \* position of the caller: "idle" | "running" | "done" | "failed" | "refused"
                        \* | "stopped"
    state,              \* the graph's AgentState: the dict every node reads
    status,             \* per node: "pending" | "running" | "done" | "raised"
    updates,            \* per node: the dict the node returned (<<>> until it returns)
    events,             \* the (node_name, update) outputs of app.stream, by node name, in emission order
    calls,              \* every model call issued, in order: [node, prompt, llm, inputs]
    loader_raised,      \* TRUE once load_paper raised inside load_paper_node
    final_state,        \* app.py / main.py local final_state
    analysis_running,   \* st.session_state.analysis_running
    analysis_result,    \* st.session_state.analysis_result: <<>> for None, <<dict>> otherwise
    analysis_error,     \* st.session_state.analysis_error: "None" or the message
    stream_container,   \* TRUE iff "stream_container" is in st.session_state
    round_table_running,\* st.session_state.round_table_running
    run_review,         \* what review_dialogue_node did inside the run, kept when it is invoked
                        \* again: <<>> or <<[state, calls, update]>>
    environ,            \* os.environ: the variables set, by name
    resolved,           \* the last model resolution: <<>> or <<[role, environ, installed, result]>>
    renders,            \* the number of sidebar sections rendered so far
    stop_requested,     \* the stop button was clicked during the run: the script run is
                        \* interrupted at its next st.* call, then stop_analysis runs
    history_store,      \* HistoryManager's store: the rows of analysis_history by id, the
                        \* paths that exist on disk, and the number of ids issued
    history_call,       \* the last HistoryManager call: its arguments, its result, and the
                        \* state dict passed to it as it is after the call
    history_saved,      \* per id returned by save_analysis: the state it was called with,
                        \* and whether delete_analysis was called on the id since
    loader_call,        \* the last load_paper call: <<>>, or its arguments, what the
                        \* libraries it uses did, and its result
    translation_batch,  \* translate_node in full mode, step by step: its position and locals
    sink,               \* what stream_msg wrote to the container, in order
    dialogue_history,   \* review_dialogue_node's local list of utterances
    locals,             \* review_dialogue_node's local reply variables (critic_q, author_a1, ...)
    turn,               \* review_dialogue_node: number of turns completed
    inflight,           \* review_dialogue_node: model calls issued and not yet returned
    searches,           \* every search-backend tool invocation, in order: [backend, variant, title, outcome]
    step,               \* the nodes of the current superstep ({} between supersteps)
    last_step           \* the nodes that completed in the previous superstep

vars == <<mode, pc, state, status, updates, events, calls, searches, loader_raised,
          step, last_step,
          final_state, analysis_running, analysis_result, analysis_error,
          stream_container, round_table_running, run_review, translation_batch,
          environ, resolved, renders, stop_requested,
          history_store, history_call, history_saved, loader_call,
          sink, dialogue_history, locals, turn, inflight>>

----------------------------------------------------------------------------
\* Python helpers

EmptyDict == [k \in {} |-> <<>>]

\* dict.get(k, default)
Get(d, k, default) == IF k \in DOMAIN d THEN d[k] ELSE default

\* dict.update(u): keys of u win
Update(d, u) == u @@ d

Min(a, b) == IF a <= b THEN a ELSE b

\* text[:n]
Slice(text, n) == SubSeq(text, 1, Min(n, Len(text)))

\* sep.join(list) for a list of texts
RECURSIVE Join(_, _)
Join(list, sep) ==
    IF Len(list) = 0 THEN <<>>
    ELSE IF Len(list) = 1 THEN list[1]
    ELSE list[1] \o sep \o Join(Tail(list), sep)

----------------------------------------------------------------------------
\* Graph topology (src/src/graph.py)

Tasks == {"translate", "extract_key_points", "extract_experiments",
          "explain_terms", "related_work_search"}

Nodes == {"load_paper"} \cup Tasks \cup {"generate_report", "review_dialogue"}

\* the add_edge calls: <<from, to>>
START == "__start__"
END == "__end__"

\* set_entry_point and the add_edge calls: <<from, to>>
EdgesNoDialogue == {<<START, "load_paper">>}
         \cup {<<"load_paper", t>> : t \in Tasks}
         \cup {<<t, "generate_report">> : t \in Tasks}
         \cup {<<"generate_report", END>>}
Edges == {<<START, "load_paper">>}
         \cup {<<"load_paper", t>> : t \in Tasks}
         \cup {<<t, "generate_report">> : t \in Tasks}
         \cup {<<"generate_report", "review_dialogue">>}
         \cup {<<"review_dialogue", END>>}

\* the order the nodes were added in
NodeOrder == <<"load_paper", "translate", "extract_key_points", "extract_experiments",
               "explain_terms", "related_work_search", "generate_report",
               "review_dialogue">>

Preds(n) == {e[1] : e \in {x \in Edges : x[2] = n}}

----------------------------------------------------------------------------
\* Fixed strings of src/src/nodes.py

NoTranslate == <<"No content to translate.">>
NoAnalyze == <<"No content to analyze.">>
NoTitleOrContent == <<"No title or content to search for.">>
NoSearchKeys == <<"No search results found. Please configure Tavily, Exa, or SerpAPI Key.">>
NoSearchResults == <<"Search executed but returned no results.">>
NoReport == <<"cannot review: no final report generated">>
ErrorLoading == <<"Error loading paper:">>
FullTranslationFailed == <<"Full translation failed:", "Partial result might be available.">>
SplitterMissing == <<"Error: langchain-text-splitters not installed.">>
NA == <<"N/A">>
Unknown == <<"Unknown">>
UntitledPaper == <<"Untitled Paper">>

\* text[:N] limits
TaskTextLimit == 100000
GlossaryTextLimit == 10000
TitleLimit == 100
ReportLimit == 10000
DocLimit == 50000
TavilyEchoLimit == 50

\* The placeholder a fan-out task returns without calling a model
Placeholder(n) ==
    CASE n = "translate" -> NoTranslate
      [] n = "related_work_search" -> NoTitleOrContent
      [] OTHER -> NoAnalyze

\* The state field a node writes its text to
FieldShared(n) ==
    CASE n = "translate" -> "translation"
      [] n = "extract_key_points" -> "key_points"
      [] n = "extract_experiments" -> "experiments"
      [] n = "explain_terms" -> "key_points"
      [] n = "related_work_search" -> "related_work_search"
      [] n = "generate_report" -> "final_report"
      [] n = "review_dialogue" -> "review_dialogue"
      [] OTHER -> "doc_content"
Field(n) ==
    CASE n = "translate" -> "translation"
      [] n = "extract_key_points" -> "key_points"
      [] n = "extract_experiments" -> "experiments"
      [] n = "explain_terms" -> "terms"
      [] n = "related_work_search" -> "related_work_search"
      [] n = "generate_report" -> "final_report"
      [] n = "review_dialogue" -> "review_dialogue"
      [] OTHER -> "doc_content"

----------------------------------------------------------------------------
\* The outside world: model, loader, search backends

\* What a chain.invoke can do: return text, return an empty text, or raise
LLMOutcomes == {"ok", "empty", "fail"}

\* The text a model call returns
LLMReply(prompt, o) == IF o = "empty" THEN <<>> ELSE <<"LLM", prompt>>

Call(node, prompt, llm, inputs) ==
    [node |-> node, prompt |-> prompt, llm |-> llm, inputs |-> inputs]

\* What a node function does: it raises, or returns an update; on the way it
\* issues model calls and search-tool invocations
Returns(update, cs, ss) ==
    [raised |-> FALSE, update |-> update, calls |-> cs, searches |-> ss]
Raises(cs, ss) ==
    [raised |-> TRUE, update |-> EmptyDict, calls |-> cs, searches |-> ss]

One(k, v) == [x \in {k} |-> v]

----------------------------------------------------------------------------
\* The model resolver (src/src/model_utils.py). A result is the constructor
\* call the resolver returns, or the ImportError it raises; "None" stands for
\* Python's None.

\* os.getenv(name, default)
Getenv(env, name, default) == IF name \in DOMAIN env THEN env[name] ELSE default

\* the provider names the resolver accepts besides "Anthropic"; the last one
\* stands for the UI's label of a custom OpenAI-compatible endpoint
OpenAILike == {"OpenAI", "OpenRouter", "Custom (OpenAI compatible)"}

ChatOpenAI(model, api_key, base_url) ==
    [raised |-> FALSE, kind |-> "ChatOpenAI", model |-> model, temperature |-> 0,
     api_key |-> api_key, base_url |-> base_url]

ChatAnthropic(model, api_key) ==
    [raised |-> FALSE, kind |-> "ChatAnthropic", model |-> model, temperature |-> 0,
     api_key |-> api_key, base_url |-> "None"]

\* "langchain-anthropic is not installed."
AnthropicImportError ==
    [raised |-> TRUE, kind |-> "ImportError", model |-> "None", temperature |-> 0,
     api_key |-> "None", base_url |-> "None"]

get_llm(env, installed) ==
    LET provider == Getenv(env, "LLM_PROVIDER", "OpenAI")
    IN  IF provider = "Anthropic"
        THEN IF installed
             THEN ChatAnthropic(Getenv(env, "ANTHROPIC_MODEL_NAME", "claude-3-5-sonnet-20240620"),
                                Getenv(env, "ANTHROPIC_API_KEY", "None"))
             ELSE AnthropicImportError
        ELSE IF provider \in OpenAILike
        THEN ChatOpenAI(Getenv(env, "OPENAI_MODEL_NAME", "gpt-4o"),
                        Getenv(env, "OPENAI_API_KEY", "None"),
                        Getenv(env, "OPENAI_API_BASE", "None"))
        ELSE \* "Default fallback"
             ChatOpenAI("gpt-4o", "None", "None")

\* the common body of get_translation_llm, get_review_llm, get_vlm_llm and
\* get_related_work_llm, which differ in the prefix of the variables they
\* read and in the default Anthropic model
get_dedicated_llm_own_default(prefix, anthropic_default, env, installed) ==
    LET provider == Getenv(env, prefix \o "LLM_PROVIDER", "None")
    IN  IF provider = "Anthropic"
        THEN IF installed
             THEN ChatAnthropic(Getenv(env, prefix \o "ANTHROPIC_MODEL_NAME", anthropic_default),
                                Getenv(env, prefix \o "ANTHROPIC_API_KEY", "None"))
             ELSE AnthropicImportError
        ELSE ChatOpenAI(Getenv(env, prefix \o "OPENAI_MODEL_NAME", "gpt-4o"),
                        Getenv(env, prefix \o "OPENAI_API_KEY", "None"),
                        Getenv(env, prefix \o "OPENAI_API_BASE", "None"))
get_dedicated_llm(prefix, anthropic_default, env, installed) ==
    LET provider == Getenv(env, prefix \o "LLM_PROVIDER", "None")
    IN  IF provider \in {"None", ""} THEN get_llm(env, installed)
        ELSE IF provider = "Anthropic"
        THEN IF installed
             THEN ChatAnthropic(Getenv(env, prefix \o "ANTHROPIC_MODEL_NAME", anthropic_default),
                                Getenv(env, prefix \o "ANTHROPIC_API_KEY", "None"))
             ELSE AnthropicImportError
        ELSE IF provider \in OpenAILike
        THEN ChatOpenAI(Getenv(env, prefix \o "OPENAI_MODEL_NAME", "gpt-4o"),
                        Getenv(env, prefix \o "OPENAI_API_KEY", "None"),
                        Getenv(env, prefix \o "OPENAI_API_BASE", "None"))
        ELSE get_llm(env, installed)

get_translation_llm(env, installed) ==
    get_dedicated_llm("TRANSLATION_", "claude-3-sonnet-20240229", env, installed)
get_review_llm(env, installed) ==
    get_dedicated_llm("REVIEW_", "claude-3-5-sonnet-20240620", env, installed)
get_vlm_llm(env, installed) ==
    get_dedicated_llm("VLM_", "claude-3-5-sonnet-20240620", env, installed)
get_related_work_llm(env, installed) ==
    get_dedicated_llm("RELATED_WORK_", "claude-3-sonnet-20240229", env, installed)

\* the key a handle authenticates with: the api_key argument, or, when it is
\* None, the provider's variable (ChatOpenAI reads OPENAI_API_KEY,
\* ChatAnthropic ANTHROPIC_API_KEY)
ApiKeyOf(h, env) ==
    IF h.api_key # "None" THEN h.api_key
    ELSE IF h.kind = "ChatAnthropic" THEN Getenv(env, "ANTHROPIC_API_KEY", "None")
    ELSE Getenv(env, "OPENAI_API_KEY", "None")

\* the roles, and the prefix of the variables of each
Roles == {"core", "translation", "related_work", "review", "vision"}

Prefix(role) ==
    CASE role = "translation" -> "TRANSLATION_"
      [] role = "related_work" -> "RELATED_WORK_"
      [] role = "review" -> "REVIEW_"
      [] role = "vision" -> "VLM_"
      [] OTHER -> ""

ResolveRole(role, env, installed) ==
    CASE role = "translation" -> get_translation_llm(env, installed)
      [] role = "related_work" -> get_related_work_llm(env, installed)
      [] role = "review" -> get_review_llm(env, installed)
      [] role = "vision" -> get_vlm_llm(env, installed)
      [] OTHER -> get_llm(env, installed)

\* the handle a role resolves to has no key: building it or calling it fails
CredentialMissing(role, env) ==
    LET h == ResolveRole(role, env, TRUE) IN h.raised \/ ApiKeyOf(h, env) = "None"

\* del os.environ[k]; os.environ[k] = v
Unset(env, k) == [x \in DOMAIN env \ {k} |-> env[x]]
Set(env, k, v) == (k :> v) @@ env

\* "if value: os.environ[k] = value"
SetIf(env, k, v) == IF v # "" THEN Set(env, k, v) ELSE env

\* render_model_config_ui (src/app.py) for one section: is_enabled is the
\* checkbox, provider the selectbox; typed tells whether the user filled the
\* text inputs (otherwise they show the variables' current values); the model
\* selectboxes stay on their first option
render_model_config_ui(env, env_prefix, is_enabled, provider, typed) ==
    LET Input(name) == IF typed THEN "typed " \o name ELSE Getenv(env, env_prefix \o name, "")
        env1 == Set(env, env_prefix \o "LLM_PROVIDER", provider)
    IN  IF env_prefix # "" /\ ~is_enabled
        THEN Unset(env, env_prefix \o "LLM_PROVIDER")
        ELSE CASE provider = "OpenAI" ->
                    Set(SetIf(env1, env_prefix \o "OPENAI_API_KEY", Input("OPENAI_API_KEY")),
                        env_prefix \o "OPENAI_MODEL_NAME", "gpt-4o")
               [] provider = "Anthropic" ->
                    Set(SetIf(env1, env_prefix \o "ANTHROPIC_API_KEY",
                              Input("ANTHROPIC_API_KEY")),
                        env_prefix \o "ANTHROPIC_MODEL_NAME", "claude-3-5-sonnet-20240620")
               [] provider = "OpenRouter" ->
                    LET api_key == Input("OPENROUTER_API_KEY")
                        model_name == IF typed THEN "typed OPENROUTER_MODEL_NAME"
                                      ELSE Getenv(env, env_prefix \o "OPENROUTER_MODEL_NAME",
                                                  "openai/gpt-4o")
                        env2 == SetIf(SetIf(env1, env_prefix \o "OPENROUTER_API_KEY", api_key),
                                      env_prefix \o "OPENAI_API_KEY", api_key)
                        env3 == Set(env2, env_prefix \o "OPENAI_API_BASE",
                                    "https://openrouter.ai/api/v1")
                    IN  Set(Set(env3, env_prefix \o "OPENROUTER_MODEL_NAME", model_name),
                            env_prefix \o "OPENAI_MODEL_NAME", model_name)
               [] OTHER ->
                    SetIf(SetIf(SetIf(env1, env_prefix \o "OPENAI_API_BASE",
                                      Input("OPENAI_API_BASE")),
                                env_prefix \o "OPENAI_API_KEY", Input("OPENAI_API_KEY")),
                          env_prefix \o "OPENAI_MODEL_NAME", Input("OPENAI_MODEL_NAME"))

----------------------------------------------------------------------------
\* load_paper_node

\* the number of blocks (lines, paragraphs) of the paper's text
DocBlocks == 2

DocText == [i \in 1..DocBlocks |->
                IF i = 1 THEN "First line of the paper" ELSE "body of the paper"]
PaperTitle == <<"Paper Title">>
FileTitle == <<"paper.pdf">>

\* What load_paper(source, use_vlm) can do (src/src/loader.py): return
\* (text, metadata, figures) with a never-empty text, or raise.
\* ArxivLoader's metadata carries "Title"; the metadata the loader builds
\* itself carries "title".
LoaderOutcomes ==
    { [raised |-> FALSE, text |-> DocText,
       metadata |-> One("Title", PaperTitle), figures |-> <<"fig1.png">>],
      [raised |-> FALSE, text |-> DocText,
       metadata |-> One("title", FileTitle), figures |-> <<>>],
      [raised |-> TRUE, text |-> <<>>, metadata |-> EmptyDict, figures |-> <<>>] }

load_paper_node(s, lo) ==
    IF "source" \notin DOMAIN s THEN Raises(<<>>, <<>>)    \* state["source"]: KeyError
    ELSE IF ~lo.raised
    THEN Returns(("doc_content" :> lo.text) @@ ("metadata" :> lo.metadata)
                 @@ ("figures" :> lo.figures), <<>>, <<>>)
    ELSE Returns(("doc_content" :> (ErrorLoading \o <<"load error">>))
                 @@ ("metadata" :> EmptyDict) @@ ("figures" :> <<>>), <<>>, <<>>)

----------------------------------------------------------------------------
\* translate_node

\* RecursiveCharacterTextSplitter.split_text: one chunk per block of the text
SplitText(text) == [i \in 1..Len(text) |-> <<text[i]>>]

TranslateOutcomes == {"ok", "fail", "glossary_fail", "chunk_fail", "import_error"}

translate_node(s, o) ==
    LET text == Get(s, "doc_content", <<>>)
        is_full_translation == Get(s, "is_full_translation", FALSE)
        glossaryCall == Call("translate", "GLOSSARY", "translation",
                             <<Slice(text, GlossaryTextLimit)>>)
        glossary == LLMReply("GLOSSARY", "ok")
        chunks == SplitText(text)
        batch == [i \in 1..Len(chunks) |->
                    Call("translate", "FULL_TRANSLATION", "translation",
                         <<chunks[i], glossary>>)]
        translated_chunks == [i \in 1..Len(chunks) |->
                                <<"LLM", "FULL_TRANSLATION">> \o chunks[i]]
        final_result == <<"### Glossary">> \o glossary \o <<"---", "### Full translation">>
                        \o Join(translated_chunks, <<"\n\n">>)
        summaryCall == Call("translate", "TRANSLATION", "translation",
                            <<Slice(text, TaskTextLimit)>>)
    IN  IF text = <<>> THEN Returns(One("translation", NoTranslate), <<>>, <<>>)
        ELSE IF is_full_translation
        THEN CASE o = "import_error" ->
                    Returns(One("translation", SplitterMissing), <<>>, <<>>)
               [] o = "glossary_fail" ->
                    Returns(One("translation", FullTranslationFailed), <<glossaryCall>>, <<>>)
               [] o \in {"chunk_fail", "fail"} ->
                    Returns(One("translation", FullTranslationFailed),
                            <<glossaryCall>> \o batch, <<>>)
               [] OTHER ->
                    Returns(One("translation", final_result), <<glossaryCall>> \o batch, <<>>)
        ELSE IF o \in {"ok", "empty"}
             THEN Returns(One("translation", LLMReply("TRANSLATION", o)), <<summaryCall>>, <<>>)
             ELSE Raises(<<summaryCall>>, <<>>)

\* translate_node in full mode, step by step. translation_batch holds
\*   phase: "idle" | "start" | "glossary" (the glossary call is in flight)
\*          | "batch" (translation_chain.batch is running) | "raising" (a
\*          chunk's exception is on its way out of batch) | "over"
\*   glossary, chunks: the locals of that name
\*   st: per chunk "queued" | "running" | "done" | "failed" | "cancelled"
\*   out: per chunk the translation returned (<<>> until then)
\*   order: the chunks in the order their calls ended
\*   next: the number of results batch has collected, in input order
NoBatch ==
    [phase |-> "idle", glossary |-> <<>>, chunks |-> <<>>, st |-> <<>>, out |-> <<>>,
     order |-> <<>>, next |-> 0]

\* config={"max_concurrency": 5}
MaxConcurrency == 5

InFlight(b) == {i \in 1..Len(b.st) : b.st[i] = "running"}

\* batch runs the calls on an executor of max_concurrency workers: a queued
\* call starts when a worker is free
WorkerAlwaysFree(b) == TRUE
WorkerFree(b) == Cardinality(InFlight(b)) < MaxConcurrency

\* the workers take the queued calls in input order
NextQueued(b) ==
    LET q == {i \in 1..Len(b.st) : b.st[i] = "queued"}
    IN  IF q = {} THEN 0 ELSE CHOOSE i \in q : \A j \in q : i <= j

\* the text a chunk call returns
ChunkReply(chunk) == <<"LLM", "FULL_TRANSLATION">> \o chunk

\* translated_chunks: batch returns the outputs in the order of its inputs
TranslatedChunksAsCompleted(b) == [k \in 1..Len(b.order) |-> b.out[b.order[k]]]
TranslatedChunks(b) == [i \in 1..Len(b.chunks) |-> b.out[i]]

\* full_translation and final_result
FinalResult(glossary, translated_chunks) ==
    <<"### Glossary">> \o glossary \o <<"---", "### Full translation">>
    \o Join(translated_chunks, <<"\n\n">>)

\* "except Exception as e": the value returned when the glossary call or
\* batch raised
ExceptPartialResult(b) ==
    FinalResult(b.glossary,
                SelectSeq(TranslatedChunks(b), LAMBDA x : x # <<>>))
ExceptFullTranslation(b) == FullTranslationFailed

----------------------------------------------------------------------------
\* extract_key_points_node, extract_experiments_node, explain_terms_node

PromptOf(n) ==
    CASE n = "extract_key_points" -> "KEY_POINTS"
      [] n = "extract_experiments" -> "EXPERIMENTS"
      [] n = "explain_terms" -> "TERMS"
      [] OTHER -> "NONE"

extract_node_unguarded(n, s, o) ==
    LET text == Get(s, "doc_content", <<>>)
        call == Call(n, PromptOf(n), "core", <<Slice(text, TaskTextLimit)>>)
    IN  IF o = "fail" THEN Raises(<<call>>, <<>>)
        ELSE Returns(One(Field(n), LLMReply(PromptOf(n), o)), <<call>>, <<>>)

extract_node(n, s, o) ==
    LET text == Get(s, "doc_content", <<>>)
        call == Call(n, PromptOf(n), "core", <<Slice(text, TaskTextLimit)>>)
    IN  IF text = <<>> THEN Returns(One(Field(n), NoAnalyze), <<>>, <<>>)
        ELSE IF o = "fail" THEN Raises(<<call>>, <<>>)
        ELSE Returns(One(Field(n), LLMReply(PromptOf(n), o)), <<call>>, <<>>)

extract_key_points_node(s, o) == extract_node("extract_key_points", s, o)
extract_experiments_node(s, o) == extract_node("extract_experiments", s, o)
explain_terms_node(s, o) == extract_node("explain_terms", s, o)

----------------------------------------------------------------------------
\* related_work_search_node and the three search helpers

Backends == {"Exa", "Tavily", "SerpAPI"}
Variants == <<"English", "Chinese", "GitHub">>

\* What one tool invocation can do
SearchOutcomes == {"results", "empty", "failed"}

Hits(b, v) == <<"hits", b, v>>

\* A search environment env: env.keys, the backends whose key is set, and
\* env.res, what each invocation does.

\* get_exa_search_results: None without a key (modelled as the empty text)
get_exa_search_results(env, v) ==
    IF "Exa" \notin env.keys THEN <<>>
    ELSE CASE env.res[<<"Exa", v>>] = "results" -> Hits("Exa", v)
           [] env.res[<<"Exa", v>>] = "empty" -> <<>>
           [] OTHER -> <<"Exa Search failed:">>

get_tavily_search_results(env, v) ==
    IF "Tavily" \notin env.keys THEN <<"Tavily API Key not found. Cannot perform web search.">>
    ELSE CASE env.res[<<"Tavily", v>>] = "results" -> Hits("Tavily", v)
           [] env.res[<<"Tavily", v>>] = "empty" -> <<>>
           [] OTHER -> <<"Search failed:">>

get_serp_search_results(env, v) ==
    IF "SerpAPI" \notin env.keys THEN <<"SerpAPI Key not found. Cannot perform web search.">>
    ELSE CASE env.res[<<"SerpAPI", v>>] = "results" ->
                    <<"### SerpAPI Search Results">> \o Hits("SerpAPI", v)
           [] env.res[<<"SerpAPI", v>>] = "empty" -> <<"### SerpAPI Search Results">>
           [] OTHER -> <<"SerpAPI Search failed:">>

SearchResult(env, b, v) ==
    CASE b = "Exa" -> get_exa_search_results(env, v)
      [] b = "Tavily" -> get_tavily_search_results(env, v)
      [] OTHER -> get_serp_search_results(env, v)

\* the substring tests on a helper's return value
IsMarkerFailuresOnly(res) ==
    \E i \in 1..Len(res) :
        res[i] \in {"Exa Search failed:", "Search failed:", "SerpAPI Search failed:"}
IsMarker(res) ==
    \E i \in 1..Len(res) :
        res[i] \in {"Exa Search failed:", "Search failed:", "SerpAPI Search failed:",
                    "Tavily API Key not found. Cannot perform web search.",
                    "SerpAPI Key not found. Cannot perform web search."}

Header(b, v) ==
    IF v = "GitHub" THEN <<"###", b, "GitHub Search Results">>
    ELSE <<"###", b, "Search Results", v>>

\* the entry the node appends to combined_results for one query
EntryNoHeader(b, res, v) ==
    IF b = "SerpAPI" THEN Tail(res) ELSE res
Entry(b, res, v) ==
    IF b = "SerpAPI" THEN Header(b, v) \o Tail(res) ELSE Header(b, v) \o res

\* the nine queries in the order the node issues them
QueryOrder == << <<"Exa", "English">>, <<"Exa", "Chinese">>, <<"Exa", "GitHub">>,
                 <<"Tavily", "English">>, <<"Tavily", "Chinese">>, <<"Tavily", "GitHub">>,
                 <<"SerpAPI", "English">>, <<"SerpAPI", "Chinese">>, <<"SerpAPI", "GitHub">> >>

RECURSIVE Combined(_, _)
Combined(env, i) ==
    IF i > Len(QueryOrder) THEN <<>>
    ELSE LET b == QueryOrder[i][1]
             v == QueryOrder[i][2]
             res == SearchResult(env, b, v)
         IN  (IF res # <<>> /\ ~IsMarker(res) THEN <<Entry(b, res, v)>> ELSE <<>>)
             \o Combined(env, i + 1)

RECURSIVE InvocationsUntilFailure(_, _, _)
InvocationsUntilFailure(env, title, i) ==
    IF i > Len(QueryOrder) THEN <<>>
    ELSE IF QueryOrder[i][1] \notin env.keys THEN InvocationsUntilFailure(env, title, i + 1)
    ELSE << [backend |-> QueryOrder[i][1], variant |-> QueryOrder[i][2], title |-> title,
             outcome |-> env.res[<<QueryOrder[i][1], QueryOrder[i][2]>>]] >>
         \o (IF env.res[<<QueryOrder[i][1], QueryOrder[i][2]>>] = "failed" THEN <<>>
             ELSE InvocationsUntilFailure(env, title, i + 1))
RECURSIVE Invocations(_, _, _)
Invocations(env, title, i) ==
    IF i > Len(QueryOrder) THEN <<>>
    ELSE (IF QueryOrder[i][1] \in env.keys
          THEN << [backend |-> QueryOrder[i][1], variant |-> QueryOrder[i][2], title |-> title,
                   outcome |-> env.res[<<QueryOrder[i][1], QueryOrder[i][2]>>]] >>
          ELSE <<>>)
         \o Invocations(env, title, i + 1)

related_work_search_node(s, env, o) ==
    LET metadata == Get(s, "metadata", EmptyDict)
        text == Get(s, "doc_content", <<>>)
        title == IF Get(metadata, "Title", <<>>) # <<>> THEN metadata["Title"]
                 ELSE IF text # <<>> THEN Slice(<<text[1]>>, TitleLimit)
                 ELSE <<>>
        combined_results == Combined(env, 1)
        ss == Invocations(env, title, 1)
        raw_search_results == Join(combined_results, <<"\n\n">>)
        call == Call("related_work_search", "RELATED_WORK", "related_work",
                     <<title, raw_search_results>>)
    IN  IF title = <<>>
        THEN Returns(One("related_work_search", NoTitleOrContent), <<>>, <<>>)
        ELSE IF combined_results = <<>>
        THEN IF env.keys = {}
             THEN Returns(One("related_work_search", NoSearchKeys), <<>>, ss)
             ELSE Returns(One("related_work_search",
                              NoSearchResults \o <<"(Tavily:">>
                              \o Slice(get_tavily_search_results(env, "English"),
                                       TavilyEchoLimit)), <<>>, ss)
        ELSE IF o = "fail"
        THEN Returns(One("related_work_search",
                         <<"Error processing search results:", "Raw Results:">>
                         \o raw_search_results), <<call>>, ss)
        ELSE Returns(One("related_work_search", LLMReply("RELATED_WORK", o)), <<call>>, ss)

----------------------------------------------------------------------------
\* generate_report_node

generate_report_node_blank_missing(s, o) ==
    LET call == Call("generate_report", "REPORT", "core",
                     << Get(s, "source", <<>>),
                        Get(s, "translation", <<>>),
                        Get(s, "key_points", <<>>),
                        Get(s, "experiments", <<>>),
                        Get(s, "terms", <<>>),
                        Get(s, "related_work_search", <<>>) >>)
    IN  IF o = "fail" THEN Raises(<<call>>, <<>>)
        ELSE Returns(One("final_report", LLMReply("REPORT", o)), <<call>>, <<>>)
generate_report_node(s, o) ==
    LET call == Call("generate_report", "REPORT", "core",
                     << Get(s, "source", Unknown),
                        Get(s, "translation", NA),
                        Get(s, "key_points", NA),
                        Get(s, "experiments", NA),
                        Get(s, "terms", NA),
                        Get(s, "related_work_search", NA) >>)
    IN  IF o = "fail" THEN Raises(<<call>>, <<>>)
        ELSE Returns(One("final_report", LLMReply("REPORT", o)), <<call>>, <<>>)

----------------------------------------------------------------------------
\* review_dialogue_node: the two scripts, one entry per turn.
\*   var: the local the reply is assigned to; prompt, llm: the chain;
\*   label: the role label of the utterance; header: what is streamed before
\*   the call (<<>>: nothing); seeds: what the call's input text is built from

Turn(var, prompt, llm, label, header, seeds) ==
    [var |-> var, prompt |-> prompt, llm |-> llm, label |-> label,
     header |-> header, seeds |-> seeds]

RoundTableTurns == <<
    Turn("moderator_open", "MODERATOR", "review", "Moderator",
         <<"### Opening">>, <<"title">>),
    Turn("critic_q", "CRITIC", "review", "Critic",
         <<"### Round 1/3">>, <<"report">>),
    Turn("author_a1", "AUTHOR", "core", "Author",
         <<>>, <<"doc", "critic_q">>),
    Turn("practitioner_q", "PRACTITIONER", "review", "Practitioner",
         <<"### Round 2/3">>, <<"report">>),
    Turn("author_a2", "AUTHOR", "core", "Author",
         <<>>, <<"doc", "practitioner_q">>),
    Turn("moderator_followup_inst", "MODERATOR", "review", "Moderator",
         <<"### Round 3/3">>, <<"title", "critic_q", "practitioner_q">>),
    Turn("critic_q2", "CRITIC", "review", "Critic - follow-up",
         <<>>, <<"report", "author_a1", "author_a2">>),
    Turn("author_a3", "AUTHOR", "core", "Author",
         <<>>, <<"doc", "critic_q2">>),
    Turn("moderator_close", "MODERATOR", "review", "Moderator - summary",
         <<"### Closing">>, <<"title", "author_a3">>) >>

SimpleTurns == <<
    Turn("reader_q1", "READER", "review", "Reader (Q1)",
         <<"### Round 1/5">>, <<"report">>),
    Turn("author_a1", "SIMPLE_AUTHOR", "core", "Author (A1)",
         <<>>, <<"doc", "reader_q1">>),
    Turn("reader_q2", "READER", "review", "Reader (Q2)",
         <<"### Round 2/5">>, <<"author_a1">>),
    Turn("author_a2", "SIMPLE_AUTHOR", "core", "Author (A2)",
         <<>>, <<"doc", "reader_q2">>),
    Turn("reader_q3", "READER", "review", "Reader (Q3)",
         <<"### Round 3/5">>, <<"author_a2">>),
    Turn("author_a3", "SIMPLE_AUTHOR", "core", "Author (A3)",
         <<>>, <<"doc", "reader_q3">>),
    Turn("reader_q4", "READER", "review", "Reader (Q4)",
         <<"### Round 4/5">>, <<"author_a3">>),
    Turn("author_a4", "SIMPLE_AUTHOR", "core", "Author (A4)",
         <<>>, <<"doc", "reader_q4">>),
    Turn("reader_feedback", "READER", "review", "Reader (Final Feedback)",
         <<"### Round 5/5">>, <<"author_a4">>) >>

\* enable_round_table = state.get("enable_round_table", True)
ScriptAbsentIsSimple(s) ==
    IF Get(s, "enable_round_table", FALSE) THEN RoundTableTurns ELSE SimpleTurns
ScriptInverted(s) ==
    IF Get(s, "enable_round_table", TRUE) THEN SimpleTurns ELSE RoundTableTurns
Script(s) ==
    IF Get(s, "enable_round_table", TRUE) THEN RoundTableTurns ELSE SimpleTurns

\* the value a seed name stands for
Resolve(name, s, locs) ==
    CASE name = "title" -> Get(Get(s, "metadata", EmptyDict), "Title", UntitledPaper)
      [] name = "report" -> Slice(Get(s, "final_report", <<>>), ReportLimit)
      [] name = "doc" -> Slice(Get(s, "doc_content", <<>>), DocLimit)
      [] OTHER -> locs[name]

TurnInputsFromReport(t, s, locs) ==
    [i \in 1..Len(t.seeds) |->
        IF t.seeds[i] \in {"title", "report", "doc"} THEN Resolve(t.seeds[i], s, locs)
        ELSE Resolve("report", s, locs)]
TurnInputs(t, s, locs) == [i \in 1..Len(t.seeds) |-> Resolve(t.seeds[i], s, locs)]

\* the reply assigned to a local
DialogueReply(var) == <<"LLM", var>>

\* msg = f"**{label}:**\n{reply}"
Utterance(t, reply) == <<t.label>> \o reply

\* stream_msg(content): a no-op unless a container is registered
stream_msg_unconditional(registered, content) == <<content, <<"---">> >>
stream_msg(registered, content) ==
    IF registered THEN <<content, <<"---">> >> ELSE <<>>

\* "\n\n---\n\n".join(dialogue_history)
FormatDialogue(history) == Join(history, <<"---">>)

----------------------------------------------------------------------------
\* The compiled graph (workflow.compile(), app.stream / app.invoke) is run by
\* langgraph's Pregel loop: nodes run in supersteps. A node is triggered when a node with an edge to it completed
\* in the previous superstep; the nodes of a superstep run concurrently, each
\* output is emitted as its node completes, and the writes of a superstep are
\* applied when all of its nodes have completed.

TriggeredNoReview == {n \in Nodes \ {"review_dialogue"} : Preds(n) \cap last_step # {}}
Triggered == {n \in Nodes : Preds(n) \cap last_step # {}}

\* the superstep barrier: every node of the step other than n has completed
StepOverAtFirst(n) == TRUE
StepOver(n) == \A m \in step \ {n} : status[m] = "done"

RECURSIVE MergeUpdates(_, _, _)
MergeUpdates(s, ups, i) ==
    IF i > Len(NodeOrder) THEN s
    ELSE MergeUpdates(IF NodeOrder[i] \in step THEN Update(s, ups[NodeOrder[i]]) ELSE s,
                      ups, i + 1)

\* The bounded inputs of a run
Source == <<"https://arxiv.org/abs/9999.99999">>

\* os.environ without any search key
BaseEnviron == One("OPENAI_API_KEY", "sk-env")

\* the environment variable holding a backend's key
KeyVar(b) ==
    CASE b = "Exa" -> "EXA_API_KEY"
      [] b = "Tavily" -> "TAVILY_API_KEY"
      [] OTHER -> "SERPAPI_API_KEY"

\* the backends whose key is set: os.environ.get(..) is truthy
SearchKeys(env) == {b \in Backends : KeyVar(b) \in DOMAIN env}

WithKeys(K) == [x \in {KeyVar(b) : b \in K} |-> "key"] @@ BaseEnviron

\* the environments of a node called on its own, and of a run
NodeEnvirons == {WithKeys(K) : K \in SUBSET Backends}

\* environments in which a credential is missing: no OPENAI_API_KEY with the
\* default provider; Anthropic selected without ANTHROPIC_API_KEY; Anthropic
\* selected with its key and without OPENAI_API_KEY
NoKeyEnviron == EmptyDict
AnthropicNoKeyEnviron == ("LLM_PROVIDER" :> "Anthropic") @@ BaseEnviron
AnthropicOnlyEnviron == ("LLM_PROVIDER" :> "Anthropic") @@ ("ANTHROPIC_API_KEY" :> "sk-ant")

RunEnvirons == {WithKeys(K) : K \in {{}, {"Tavily"}}}
                \cup {NoKeyEnviron, AnthropicNoKeyEnviron, AnthropicOnlyEnviron}

\* the search environments of a node called on its own
\* (every invocation does the same, or one of them fails while the others
\* return results)
SearchEnvs ==
    { [keys |-> K, res |-> [q \in Backends \X {"English", "Chinese", "GitHub"} |-> r]] :
        K \in SUBSET Backends, r \in SearchOutcomes }
    \cup
    { [keys |-> K, res |-> [q \in Backends \X {"English", "Chinese", "GitHub"} |->
                                IF q = f THEN "failed" ELSE "results"]] :
        K \in SUBSET Backends, f \in Backends \X {"English", "Chinese", "GitHub"} }

\* the search environments of a run
RunSearchEnvs ==
    { [keys |-> K, res |-> [q \in Backends \X {"English", "Chinese", "GitHub"} |-> "results"]] :
        K \in {{}, {"Tavily"}} }

\* the outcomes of translate_node's model calls in a run
RunTranslateOutcomes == {"ok", "fail"}

reviewVars == <<sink, dialogue_history, locals, turn, inflight>>
configVars == <<environ, resolved, renders, stop_requested>>
historyVars == <<history_store, history_call, history_saved>>

\* the temporary figure files the loader left on disk
TempFiles == { <<"temp", "figures", "s1", "fig1.png">>,
               <<"temp", "figures", "s2", "fig1.png">>,
               <<"temp", "figures", "s1", "fig2.png">> }

\* HistoryManager.__init__ on a new data directory: no row, no image
EmptyHistory == [rows |-> EmptyDict, files |-> TempFiles, issued |-> 0]
NoCall == [op |-> "none", id |-> "None", arg |-> EmptyDict, result |-> <<>>,
           state_after |-> EmptyDict]
NoHistory ==
    /\ history_store = EmptyHistory
    /\ history_call = NoCall
    /\ history_saved = EmptyDict
sessionVars == <<analysis_running, analysis_result, analysis_error, stream_container,
                 round_table_running>>

Init ==
    /\ mode = "idle"
    /\ pc = "idle"
    /\ state = EmptyDict
    /\ status = [n \in Nodes |-> "pending"]
    /\ updates = [n \in Nodes |-> EmptyDict]
    /\ events = <<>>
    /\ calls = <<>>
    /\ searches = <<>>
    /\ loader_raised = FALSE
    /\ step = {}
    /\ last_step = {}
    /\ final_state = EmptyDict
    /\ analysis_running = FALSE
    /\ analysis_result = <<>>
    /\ analysis_error = "None"
    /\ stream_container = FALSE
    /\ round_table_running = FALSE
    /\ run_review = <<>>
    /\ translation_batch = NoBatch
    /\ environ \in RunEnvirons
    /\ resolved = <<>>
    /\ renders = 0
    /\ stop_requested = FALSE
    /\ NoHistory
    /\ loader_call = <<>>
    /\ sink = <<>>
    /\ dialogue_history = <<>>
    /\ locals = EmptyDict
    /\ turn = 0
    /\ inflight = 0

\* app.py: start_analysis, then main() up to the first app.stream output
StartInteractive ==
    \E full \in BOOLEAN, rt \in BOOLEAN :
        /\ pc = "idle"
        /\ "OPENAI_API_KEY" \in DOMAIN environ
        /\ mode' = "interactive"
        /\ pc' = "running"
        /\ state' = ("source" :> Source) @@ ("is_full_translation" :> full)
                    @@ ("use_vlm_parsing" :> FALSE) @@ ("enable_round_table" :> rt)
        /\ analysis_running' = TRUE
        /\ analysis_result' = <<>>
        /\ analysis_error' = "None"
        /\ stream_container' = TRUE
        /\ final_state' = EmptyDict
        /\ last_step' = {START}
        /\ UNCHANGED <<status, updates, events, calls, searches, loader_raised, step,
                       round_table_running, run_review, configVars, historyVars, loader_call, translation_batch,
                       reviewVars>>

\* main.py: app.invoke({"source": args.source})
StartBatch ==
    /\ pc = "idle"
    /\ "OPENAI_API_KEY" \in DOMAIN environ
    /\ mode' = "batch"
    /\ pc' = "running"
    /\ state' = ("source" :> Source)
    /\ last_step' = {START}
    /\ UNCHANGED <<status, updates, events, calls, searches, loader_raised, step,
                   final_state, sessionVars, run_review, configVars, historyVars, loader_call, translation_batch,
                   reviewVars>>

\* app.py: start_analysis, then main() finds no OPENAI_API_KEY: st.error and
\* analysis_running = False; the graph is not built
RefuseInteractive ==
    /\ pc = "idle"
    /\ "OPENAI_API_KEY" \notin DOMAIN environ
    /\ mode' = "interactive"
    /\ pc' = "refused"
    /\ analysis_running' = FALSE
    /\ analysis_result' = <<>>
    /\ analysis_error' = "None"
    /\ UNCHANGED <<state, status, updates, events, calls, searches, loader_raised, step,
                   last_step, final_state, stream_container, round_table_running,
                   run_review, configVars, historyVars, loader_call, translation_batch, reviewVars>>

\* main.py: "if not os.getenv("OPENAI_API_KEY")": the error is printed and
\* main returns
RefuseBatch ==
    /\ pc = "idle"
    /\ "OPENAI_API_KEY" \notin DOMAIN environ
    /\ mode' = "batch"
    /\ pc' = "refused"
    /\ UNCHANGED <<state, status, updates, events, calls, searches, loader_raised, step,
                   last_step, final_state, sessionVars, run_review, configVars, historyVars, loader_call,
                   translation_batch, reviewVars>>

\* app.py: the stop button (shown while analysis_running) is clicked during
\* the run; Streamlit queues the rerun that will call stop_analysis
StopAnalysis ==
    /\ mode = "interactive"
    /\ pc = "running"
    /\ analysis_running
    /\ ~stop_requested
    /\ stop_requested' = TRUE
    /\ UNCHANGED <<mode, pc, state, status, updates, events, calls, searches, loader_raised,
                   step, last_step, final_state, sessionVars, run_review, environ, resolved,
                   renders, historyVars, loader_call, translation_batch, reviewVars>>

\* a stop was requested and review_dialogue_node runs on the script's thread:
\* the script run is interrupted inside the node, at a stream_msg call
StopObservedInNode ==
    /\ mode = "interactive"
    /\ pc = "running"
    /\ stop_requested
    /\ status["review_dialogue"] = "running"
    /\ Get(state, "final_report", <<>>) # <<>>
    /\ stream_container
    /\ inflight = 0
    /\ pc' = "stopped"
    /\ status' = [status EXCEPT !["review_dialogue"] = "interrupted"]
    /\ analysis_running' = FALSE
    /\ UNCHANGED <<mode, state, updates, events, calls, searches, loader_raised,
                   step, last_step, final_state, analysis_result, analysis_error,
                   stream_container, round_table_running, run_review, configVars, historyVars, loader_call,
                   translation_batch, reviewVars>>

\* the engine starts the next superstep
StartStepAfterStop ==
    /\ pc \in {"running", "stopped"}
    /\ mode \in {"interactive", "batch"}
    /\ step = {} \/ \A n \in step : status[n] = "done"
    /\ Triggered # {} \/ step # {}
    /\ LET next == IF step = {} THEN Triggered
                   ELSE {n \in Nodes : Preds(n) \cap step # {}}
       IN  /\ step' = next
           /\ status' = [n \in Nodes |-> IF n \in next THEN "running" ELSE status[n]]
    /\ UNCHANGED <<mode, pc, state, updates, events, calls, searches, loader_raised,
                   last_step, final_state, sessionVars, run_review, configVars, historyVars, loader_call,
                   translation_batch,
                   reviewVars>>
StartStep ==
    /\ pc = "running"
    /\ mode \in {"interactive", "batch"}
    /\ step = {}
    /\ Triggered # {}
    /\ step' = Triggered
    /\ status' = [n \in Nodes |-> IF n \in Triggered THEN "running" ELSE status[n]]
    /\ UNCHANGED <<mode, pc, state, updates, events, calls, searches, loader_raised,
                   last_step, final_state, sessionVars, run_review, configVars, historyVars, loader_call,
                   translation_batch,
                   reviewVars>>

\* no node is triggered: the stream ends and the caller finishes
\* (app.py "Finalize" .. "Store result"; main.py final_state = app.invoke(..))
EndOfStreamKeepsContainer ==
    /\ pc = "running"
    /\ mode \in {"interactive", "batch"}
    /\ step = {}
    /\ Triggered = {}
    /\ IF mode = "interactive" /\ stop_requested
       THEN /\ pc' = "stopped"
            /\ analysis_running' = FALSE
            /\ UNCHANGED <<final_state, analysis_result, analysis_error, stream_container,
                           round_table_running>>
       ELSE IF mode = "interactive"
       THEN /\ pc' = "done"
            /\ analysis_result' = <<final_state>>
            /\ analysis_running' = FALSE
            /\ UNCHANGED <<final_state, analysis_error, stream_container,
                           round_table_running>>
       ELSE /\ pc' = "done"
            /\ final_state' = state
            /\ UNCHANGED sessionVars
    /\ UNCHANGED <<mode, state, status, updates, events, calls, searches, loader_raised,
                   step, last_step, run_review, configVars, historyVars, loader_call,
                   translation_batch, reviewVars>>
EndOfStream ==
    /\ pc = "running"
    /\ mode \in {"interactive", "batch"}
    /\ step = {}
    /\ Triggered = {}
    /\ IF mode = "interactive" /\ stop_requested
       THEN \* interrupted at progress_bar.progress(100): nothing is stored
            /\ pc' = "stopped"
            /\ analysis_running' = FALSE
            /\ UNCHANGED <<final_state, analysis_result, analysis_error, stream_container,
                           round_table_running>>
       ELSE IF mode = "interactive"
       THEN /\ pc' = "done"
            /\ analysis_result' = <<final_state>>
            /\ analysis_running' = FALSE
            /\ stream_container' = FALSE
            /\ UNCHANGED <<final_state, analysis_error, round_table_running>>
       ELSE /\ pc' = "done"
            /\ final_state' = state
            /\ UNCHANGED sessionVars
    /\ UNCHANGED <<mode, state, status, updates, events, calls, searches, loader_raised,
                   step, last_step, run_review, configVars, historyVars, loader_call, translation_batch, reviewVars>>

\* Node n ends with result r: what the engine and the caller do with it
Finish(n, r) ==
    /\ status' = [status EXCEPT ![n] = IF r.raised THEN "raised" ELSE "done"]
    /\ updates' = [updates EXCEPT ![n] = r.update]
    /\ calls' = calls \o r.calls
    /\ searches' = searches \o r.searches
    /\ mode' = mode
    /\ run_review' = run_review
    /\ UNCHANGED <<configVars, historyVars, loader_call>>
    /\ IF mode = "node"
       THEN \* the node function was called on its own
            /\ pc' = IF r.raised THEN "failed" ELSE "done"
            /\ UNCHANGED <<state, events, step, last_step, final_state, sessionVars>>
       ELSE IF mode = "standalone"
       THEN \* app.py's round table: "if st.session_state.round_table_running"
            \* merges the update into the stored result; the except branch
            \* only clears the flag and the container
            /\ pc' = IF r.raised THEN "failed" ELSE "done"
            /\ IF ~r.raised /\ round_table_running
               THEN /\ final_state' = Update(final_state, r.update)
                    /\ analysis_result' = <<final_state'>>
               ELSE UNCHANGED <<final_state, analysis_result>>
            /\ IF r.raised \/ round_table_running
               THEN round_table_running' = FALSE /\ stream_container' = FALSE
               ELSE UNCHANGED <<round_table_running, stream_container>>
            /\ UNCHANGED <<state, events, step, last_step, analysis_running, analysis_error>>
       ELSE IF pc = "stopped"
       THEN \* the stream was closed while n was in flight: its result is dropped
            /\ pc' = pc
            /\ UNCHANGED <<state, events, step, last_step, final_state, sessionVars>>
       ELSE IF r.raised
       THEN \* the exception leaves app.stream / app.invoke: the except branch
            \* (interrupted at its st.error when a stop was requested)
            /\ IF mode = "interactive" /\ stop_requested
               THEN /\ pc' = "stopped"
                    /\ analysis_running' = FALSE
                    /\ UNCHANGED <<analysis_result, analysis_error, stream_container,
                                   round_table_running>>
               ELSE IF mode = "interactive"
               THEN /\ pc' = "failed"
                    /\ analysis_running' = FALSE
                    /\ analysis_error' = "analysis failed"
                    /\ stream_container' = FALSE
                    /\ UNCHANGED <<analysis_result, round_table_running>>
               ELSE /\ pc' = "failed"
                    /\ UNCHANGED sessionVars
            /\ UNCHANGED <<state, events, step, last_step, final_state>>
       ELSE IF mode = "interactive" /\ stop_requested
       THEN \* the output {n: update} is emitted and merged into final_state; the
            \* script run is interrupted at the tab update that follows, the stream
            \* is closed and stop_analysis clears analysis_running
            /\ pc' = "stopped"
            /\ events' = Append(events, n)
            /\ final_state' = Update(final_state, r.update)
            /\ analysis_running' = FALSE
            /\ UNCHANGED <<state, step, last_step, analysis_result, analysis_error,
                           stream_container, round_table_running>>
       ELSE \* the output {n: update} is emitted; app.py merges it into final_state
            /\ pc' = pc
            /\ events' = Append(events, n)
            /\ final_state' = IF mode = "interactive" THEN Update(final_state, r.update)
                              ELSE final_state
            /\ IF StepOver(n)
               THEN /\ state' = MergeUpdates(state, updates', 1)
                    /\ last_step' = step
                    /\ step' = {}
               ELSE UNCHANGED <<state, step, last_step>>
            /\ UNCHANGED sessionVars

----------------------------------------------------------------------------
\* The nodes run

Running(n) == pc \in {"running", "stopped"} /\ status[n] = "running"

RunLoadPaper ==
    \E lo \in LoaderOutcomes :
        /\ Running("load_paper")
        /\ Finish("load_paper", load_paper_node(state, lo))
        /\ loader_raised' = (lo.raised /\ "source" \in DOMAIN state)
        /\ UNCHANGED <<translation_batch, reviewVars>>

RunTranslate ==
    \E o \in IF mode = "node" THEN TranslateOutcomes ELSE RunTranslateOutcomes :
        /\ Running("translate")
        /\ CredentialMissing("translation", environ) => o = "fail"
        /\ Finish("translate", translate_node(state, o))
        /\ UNCHANGED <<loader_raised, translation_batch, reviewVars>>

RunExtractKeyPoints ==
    \E o \in {"ok", "fail"} :
        /\ Running("extract_key_points")
        /\ CredentialMissing("core", environ) => o = "fail"
        /\ Finish("extract_key_points", extract_key_points_node(state, o))
        /\ UNCHANGED <<loader_raised, translation_batch, reviewVars>>

RunExtractExperiments ==
    \E o \in {"ok", "fail"} :
        /\ Running("extract_experiments")
        /\ CredentialMissing("core", environ) => o = "fail"
        /\ Finish("extract_experiments", extract_experiments_node(state, o))
        /\ UNCHANGED <<loader_raised, translation_batch, reviewVars>>

RunExplainTerms ==
    \E o \in {"ok", "fail"} :
        /\ Running("explain_terms")
        /\ CredentialMissing("core", environ) => o = "fail"
        /\ Finish("explain_terms", explain_terms_node(state, o))
        /\ UNCHANGED <<loader_raised, translation_batch, reviewVars>>

RunRelatedWorkSearch ==
    \E env \in IF mode = "node" THEN SearchEnvs ELSE RunSearchEnvs, o \in LLMOutcomes :
        /\ Running("related_work_search")
        /\ env.keys = SearchKeys(environ)
        /\ CredentialMissing("related_work", environ) => o = "fail"
        /\ mode # "node" => o # "empty"
        /\ Finish("related_work_search", related_work_search_node(state, env, o))
        /\ UNCHANGED <<loader_raised, translation_batch, reviewVars>>

RunGenerateReport ==
    \E o \in LLMOutcomes :
        /\ Running("generate_report")
        /\ CredentialMissing("core", environ) => o = "fail"
        /\ Finish("generate_report", generate_report_node(state, o))
        /\ UNCHANGED <<loader_raised, translation_batch, reviewVars>>

\* review_dialogue_node's precondition: report = state.get("final_report", "")
\* is not empty
HasReportKey(s) == "final_report" \in DOMAIN s
HasReport(s) == Get(s, "final_report", <<>>) # <<>>

\* review_dialogue_node, "if not report": the fixed message, nothing else
ReviewNoReport ==
    /\ Running("review_dialogue")
    /\ turn = 0 /\ inflight = 0
    /\ ~HasReport(state)
    /\ Finish("review_dialogue", Returns(One("review_dialogue", NoReport), <<>>, <<>>))
    /\ UNCHANGED <<loader_raised, translation_batch, reviewVars>>

\* the next turn of the script: its header is streamed and its chain invoked
ReviewCall ==
    /\ Running("review_dialogue")
    /\ inflight = 0
    /\ HasReport(state)
    /\ turn < Len(Script(state))
    \* app.py's round table: a queued stop interrupts the script at stream_msg
    /\ ~(mode = "standalone" /\ stop_requested /\ Script(state)[turn + 1].header # <<>>)
    /\ LET t == Script(state)[turn + 1]
       IN  /\ sink' = sink \o (IF t.header # <<>> THEN stream_msg(stream_container, t.header)
                               ELSE <<>>)
           /\ calls' = Append(calls, Call("review_dialogue", t.prompt, t.llm,
                                          TurnInputs(t, state, locals)))
    /\ inflight' = inflight + 1
    /\ UNCHANGED <<mode, pc, state, status, updates, events, searches, loader_raised,
                   step, last_step, final_state, sessionVars, run_review, configVars, historyVars, loader_call,
                   translation_batch, dialogue_history, locals, turn>>

\* the chain returns: the utterance is appended and streamed; after the last
\* turn the node returns the formatted dialogue
ReviewReturn ==
    /\ Running("review_dialogue")
    /\ inflight = 1
    /\ ~CredentialMissing(Script(state)[turn + 1].llm, environ)
    /\ ~(mode = "standalone" /\ stop_requested)
    /\ LET t == Script(state)[turn + 1]
           msg == Utterance(t, DialogueReply(t.var))
       IN  /\ locals' = (t.var :> DialogueReply(t.var)) @@ locals
           /\ dialogue_history' = Append(dialogue_history, msg)
           /\ sink' = sink \o stream_msg(stream_container, msg)
    /\ turn' = turn + 1
    /\ inflight' = 0
    /\ IF turn + 1 = Len(Script(state)) /\ mode # "standalone"
       THEN Finish("review_dialogue",
                   Returns(One("review_dialogue", FormatDialogue(dialogue_history')),
                           <<>>, <<>>))
       ELSE UNCHANGED <<mode, pc, state, status, updates, events, calls, searches,
                        step, last_step, final_state, sessionVars, run_review,
                        configVars, historyVars, loader_call>>
    /\ UNCHANGED translation_batch
    /\ UNCHANGED loader_raised

\* the chain raises: nothing catches it inside the node
ReviewRaiseReturnsPartial ==
    /\ Running("review_dialogue")
    /\ inflight = 1
    /\ inflight' = 0
    /\ Finish("review_dialogue",
              Returns(One("review_dialogue", FormatDialogue(dialogue_history)), <<>>, <<>>))
    /\ UNCHANGED <<loader_raised, translation_batch, sink, dialogue_history, locals, turn>>
ReviewRaise ==
    /\ Running("review_dialogue")
    /\ inflight = 1
    /\ inflight' = 0
    /\ Finish("review_dialogue", Raises(<<>>, <<>>))
    /\ UNCHANGED <<loader_raised, translation_batch, sink, dialogue_history, locals, turn>>

\* app.py, the round table on a stored result: state_for_node is a copy of
\* the stored result with enable_round_table set
StateForNodeFlagOff(fs) == ("enable_round_table" :> FALSE) @@ fs
StateForNode(fs) == ("enable_round_table" :> TRUE) @@ fs

\* the review_dialogue calls issued so far
ReviewCalls == SelectSeq(calls, LAMBDA c : c.node = "review_dialogue")

\* app.py: start_round_table, then the script up to the call of
\* review_dialogue_node(state_for_node); the model follows the first round
\* table started on a result
StartRoundTable ==
    /\ mode = "interactive"
    /\ pc = "done"
    /\ analysis_result # <<>>
    /\ analysis_result[1] # EmptyDict
    /\ ~analysis_running
    /\ ~round_table_running
    /\ run_review = <<>>
    /\ mode' = "standalone"
    /\ pc' = "running"
    /\ round_table_running' = TRUE
    /\ stream_container' = TRUE
    /\ final_state' = analysis_result[1]
    /\ state' = StateForNode(analysis_result[1])
    /\ status' = [status EXCEPT !["review_dialogue"] = "running"]
    /\ run_review' = << [state |-> state, calls |-> ReviewCalls,
                          update |-> updates["review_dialogue"]] >>
    /\ sink' = <<>>
    /\ dialogue_history' = <<>>
    /\ locals' = EmptyDict
    /\ turn' = 0
    /\ inflight' = 0
    /\ UNCHANGED <<updates, events, calls, searches, loader_raised, step, last_step,
                   analysis_running, analysis_result, analysis_error, translation_batch,
                   configVars, historyVars, loader_call>>

\* app.py: the round table's stop button is clicked while the node runs;
\* Streamlit queues the rerun that will call stop_round_table
StopRoundTable ==
    /\ mode = "standalone"
    /\ pc = "running"
    /\ round_table_running
    /\ ~stop_requested
    /\ stop_requested' = TRUE
    /\ UNCHANGED <<mode, pc, state, status, updates, events, calls, searches, loader_raised,
                   step, last_step, final_state, sessionVars, run_review, environ, resolved,
                   renders, historyVars, loader_call, translation_batch, reviewVars>>

\* the queued stop is seen at the next stream_msg call of the node (a turn's
\* header, or the utterance just appended): the script run is interrupted
\* there, and the rerun starts with stop_round_table
StopObservedInRoundTable ==
    /\ mode = "standalone"
    /\ pc = "running"
    /\ stop_requested
    /\ status["review_dialogue"] = "running"
    /\ Get(state, "final_report", <<>>) # <<>>
    /\ stream_container
    /\ turn < Len(Script(state))
    /\ \/ /\ inflight = 0
          /\ Script(state)[turn + 1].header # <<>>
          /\ UNCHANGED <<dialogue_history, locals, inflight>>
       \/ /\ inflight = 1
          /\ ~CredentialMissing(Script(state)[turn + 1].llm, environ)
          /\ LET t == Script(state)[turn + 1]
             IN  /\ locals' = (t.var :> DialogueReply(t.var)) @@ locals
                 /\ dialogue_history' = Append(dialogue_history,
                                               Utterance(t, DialogueReply(t.var)))
          /\ inflight' = 0
    /\ UNCHANGED <<sink, turn>>
    /\ pc' = "stopped"
    /\ status' = [status EXCEPT !["review_dialogue"] = "interrupted"]
    /\ round_table_running' = FALSE
    /\ stream_container' = FALSE
    /\ UNCHANGED <<mode, state, updates, events, calls, searches, loader_raised,
                   step, last_step, final_state, analysis_running, analysis_result,
                   analysis_error, run_review, configVars, historyVars, loader_call,
                   translation_batch>>

\* app.py's round table: review_dialogue_node(state_for_node) returns after
\* its last stream_msg, and "if st.session_state.round_table_running" follows
RoundTableReturn ==
    /\ mode = "standalone"
    /\ Running("review_dialogue")
    /\ HasReport(state)
    /\ inflight = 0
    /\ turn = Len(Script(state))
    /\ Finish("review_dialogue",
              Returns(One("review_dialogue", FormatDialogue(dialogue_history)), <<>>, <<>>))
    /\ UNCHANGED <<loader_raised, translation_batch, reviewVars>>

NodeStep ==
    \/ RunLoadPaper
    \/ RunTranslate
    \/ RunExtractKeyPoints
    \/ RunExtractExperiments
    \/ RunExplainTerms
    \/ RunRelatedWorkSearch
    \/ RunGenerateReport
    \/ ReviewNoReport
    \/ ReviewCall
    \/ ReviewReturn
    \/ ReviewRaise

Next ==
    \/ StartInteractive
    \/ StartBatch
    \/ RefuseInteractive
    \/ RefuseBatch
    \/ StopAnalysis
    \/ StopObservedInNode
    \/ StartStep
    \/ EndOfStream
    \/ StartRoundTable
    \/ StopRoundTable
    \/ StopObservedInRoundTable
    \/ RoundTableReturn
    \/ NodeStep

Spec == Init /\ [][Next]_vars

----------------------------------------------------------------------------
\* A node function called on its own, on any state dict: the fields it reads
\* are absent, empty or set.

ReportText == <<"LLM", "REPORT">>

TaskFields == {"translation", "key_points", "experiments", "terms", "related_work_search"}

NodeInputs ==
    { src @@ d @@ m @@ f @@ r @@ e @@ t :
        src \in {EmptyDict, One("source", Source)},
        d \in {EmptyDict} \cup {One("doc_content", x) : x \in {<<>>, DocText}},
        m \in {EmptyDict} \cup {One("metadata", x) : x \in {EmptyDict, One("Title", PaperTitle)}},
        f \in {EmptyDict} \cup {One("is_full_translation", x) : x \in BOOLEAN},
        r \in {EmptyDict} \cup {One("final_report", x) : x \in {<<>>, ReportText}},
        e \in {EmptyDict} \cup {One("enable_round_table", x) : x \in BOOLEAN},
        t \in {EmptyDict, One("translation", <<"LLM", "translation">>),
               [k \in TaskFields |-> <<"LLM", k>>]} }

InitNode ==
    \E n \in Nodes, s \in NodeInputs, registered \in BOOLEAN :
        /\ mode = "node"
        /\ pc = "running"
        /\ state = s
        /\ status = [m \in Nodes |-> IF m = n THEN "running" ELSE "pending"]
        /\ updates = [m \in Nodes |-> EmptyDict]
        /\ events = <<>>
        /\ calls = <<>>
        /\ searches = <<>>
        /\ loader_raised = FALSE
        /\ step = {n}
        /\ last_step = {}
        /\ final_state = EmptyDict
        /\ analysis_running = FALSE
        /\ analysis_result = <<>>
        /\ analysis_error = "None"
        /\ stream_container = registered
        /\ round_table_running = FALSE
        /\ run_review = <<>>
        /\ translation_batch = NoBatch
        /\ environ \in (IF n = "related_work_search" THEN NodeEnvirons ELSE {BaseEnviron})
        /\ resolved = <<>>
        /\ renders = 0
        /\ stop_requested = FALSE
        /\ NoHistory
        /\ loader_call = <<>>
        /\ sink = <<>>
        /\ dialogue_history = <<>>
        /\ locals = EmptyDict
        /\ turn = 0
        /\ inflight = 0

NextNode == NodeStep

SpecNode == InitNode /\ [][NextNode]_vars

----------------------------------------------------------------------------
\* translate_node called in full mode on a text of 1 .. MaxChunks blocks, step
\* by step: the glossary call, then translation_chain.batch with its
\* concurrent chunk calls.

MaxChunks == 6

BlockText(n) == [i \in 1..n |-> ToString(i)]

InitBatch ==
    \E n \in 1..MaxChunks :
        /\ mode = "node"
        /\ pc = "running"
        /\ state = ("source" :> Source) @@ ("doc_content" :> BlockText(n))
                   @@ ("is_full_translation" :> TRUE)
        /\ status = [m \in Nodes |-> IF m = "translate" THEN "running" ELSE "pending"]
        /\ updates = [m \in Nodes |-> EmptyDict]
        /\ events = <<>>
        /\ calls = <<>>
        /\ searches = <<>>
        /\ loader_raised = FALSE
        /\ step = {"translate"}
        /\ last_step = {}
        /\ final_state = EmptyDict
        /\ analysis_running = FALSE
        /\ analysis_result = <<>>
        /\ analysis_error = "None"
        /\ stream_container = FALSE
        /\ round_table_running = FALSE
        /\ run_review = <<>>
        /\ translation_batch = [NoBatch EXCEPT !.phase = "start"]
        /\ environ = BaseEnviron
        /\ resolved = <<>>
        /\ renders = 0
        /\ stop_requested = FALSE
        /\ NoHistory
        /\ loader_call = <<>>
        /\ sink = <<>>
        /\ dialogue_history = <<>>
        /\ locals = EmptyDict
        /\ turn = 0
        /\ inflight = 0

\* what a step inside translate_node leaves alone
batchFrame == <<mode, pc, state, status, updates, events, searches, loader_raised,
                step, last_step, final_state, sessionVars, run_review, configVars, historyVars, loader_call,
                reviewVars>>

\* translate_node returns
BatchFinish(text) ==
    /\ Finish("translate", Returns(One("translation", text), <<>>, <<>>))
    /\ UNCHANGED <<loader_raised, reviewVars>>

\* "except ImportError": the splitter cannot be imported
SplitterImportError ==
    /\ Running("translate")
    /\ translation_batch.phase = "start"
    /\ translation_batch' = [translation_batch EXCEPT !.phase = "over"]
    /\ BatchFinish(SplitterMissing)

\* glossary_chain.invoke({"text": text[:10000]}) is issued
GlossaryCall ==
    /\ Running("translate")
    /\ translation_batch.phase = "start"
    /\ translation_batch' = [translation_batch EXCEPT !.phase = "glossary"]
    /\ calls' = Append(calls, Call("translate", "GLOSSARY", "translation",
                                   <<Slice(state["doc_content"], GlossaryTextLimit)>>))
    /\ UNCHANGED batchFrame

\* the glossary call returns: the text is split and batch starts with every
\* chunk call queued
GlossaryReturn ==
    /\ Running("translate")
    /\ translation_batch.phase = "glossary"
    /\ LET chunks == SplitText(state["doc_content"])
       IN  translation_batch' =
                [translation_batch EXCEPT
                    !.phase = "batch",
                    !.glossary = LLMReply("GLOSSARY", "ok"),
                    !.chunks = chunks,
                    !.st = [i \in 1..Len(chunks) |-> "queued"],
                    !.out = [i \in 1..Len(chunks) |-> <<>>]]
    /\ UNCHANGED <<calls, batchFrame>>

\* the glossary call raises: the except branch returns the error string
GlossaryRaise ==
    /\ Running("translate")
    /\ translation_batch.phase = "glossary"
    /\ translation_batch' = [translation_batch EXCEPT !.phase = "over"]
    /\ BatchFinish(ExceptFullTranslation(translation_batch))

\* a free worker takes the next queued chunk call
ChunkStart ==
    /\ Running("translate")
    /\ translation_batch.phase \in {"batch"}
    /\ NextQueued(translation_batch) # 0
    /\ WorkerFree(translation_batch)
    /\ LET i == NextQueued(translation_batch)
       IN  /\ translation_batch' = [translation_batch EXCEPT !.st[i] = "running"]
           /\ calls' = Append(calls, Call("translate", "FULL_TRANSLATION", "translation",
                                          <<translation_batch.chunks[i],
                                            translation_batch.glossary>>))
    /\ UNCHANGED batchFrame

\* a chunk call returns
ChunkReturn ==
    \E i \in InFlight(translation_batch) :
        /\ Running("translate")
        /\ translation_batch' =
                [translation_batch EXCEPT
                    !.st[i] = "done",
                    !.out[i] = ChunkReply(translation_batch.chunks[i]),
                    !.order = Append(@, i)]
        /\ UNCHANGED <<calls, batchFrame>>

\* a chunk call raises
ChunkRaise ==
    \E i \in InFlight(translation_batch) :
        /\ Running("translate")
        /\ translation_batch' =
                [translation_batch EXCEPT !.st[i] = "failed", !.order = Append(@, i)]
        /\ UNCHANGED <<calls, batchFrame>>

\* batch collects the next result, in input order
BatchCollect ==
    /\ Running("translate")
    /\ translation_batch.phase = "batch"
    /\ translation_batch.next < Len(translation_batch.st)
    /\ translation_batch.st[translation_batch.next + 1] = "done"
    /\ translation_batch' = [translation_batch EXCEPT !.next = @ + 1]
    /\ UNCHANGED <<calls, batchFrame>>

\* the next result is an exception: batch re-raises it; the calls still
\* queued are cancelled, the calls in flight run to their end
BatchRaise ==
    /\ Running("translate")
    /\ translation_batch.phase = "batch"
    /\ translation_batch.next < Len(translation_batch.st)
    /\ translation_batch.st[translation_batch.next + 1] = "failed"
    /\ translation_batch' =
            [translation_batch EXCEPT
                !.phase = "raising",
                !.st = [i \in 1..Len(@) |-> IF @[i] = "queued" THEN "cancelled" ELSE @[i]]]
    /\ UNCHANGED <<calls, batchFrame>>

\* batch returned every output: the node joins them and returns final_result
BatchReturn ==
    /\ Running("translate")
    /\ translation_batch.phase = "batch"
    /\ translation_batch.next = Len(translation_batch.st)
    /\ translation_batch' = [translation_batch EXCEPT !.phase = "over"]
    /\ BatchFinish(FinalResult(translation_batch.glossary,
                               TranslatedChunks(translation_batch)))

\* the exception leaves batch: the except branch returns the error string
BatchExcept ==
    /\ Running("translate")
    /\ translation_batch.phase = "raising"
    /\ InFlight(translation_batch) = {}
    /\ translation_batch' = [translation_batch EXCEPT !.phase = "over"]
    /\ BatchFinish(ExceptFullTranslation(translation_batch))

NextBatch ==
    \/ SplitterImportError
    \/ GlossaryCall
    \/ GlossaryReturn
    \/ GlossaryRaise
    \/ ChunkStart
    \/ ChunkReturn
    \/ ChunkRaise
    \/ BatchCollect
    \/ BatchRaise
    \/ BatchReturn
    \/ BatchExcept

SpecBatch == InitBatch /\ [][NextBatch]_vars

----------------------------------------------------------------------------
\* Configuration and resolution: the sidebar sections are rendered with any
\* widget values, and a role's model is resolved from os.environ.

\* the number of section renders followed
MaxRenders == 1

\* the providers the selectbox offers
Providers == {"Anthropic"} \cup OpenAILike

\* os.environ at start-up (.env): the core provider is unset, supported or
\* unsupported, and at most one dedicated provider is set, to "None", to a
\* supported or to an unsupported kind
StartEnvirons ==
    LET core == {EmptyDict, One("LLM_PROVIDER", "Anthropic"), One("LLM_PROVIDER", "Gemini")}
        dedicated == {EmptyDict}
                     \cup { One(Prefix(r) \o "LLM_PROVIDER", p) :
                                r \in Roles \ {"core"}, p \in {"None", "Anthropic", "Gemini"} }
    IN  { c @@ d @@ BaseEnviron : c \in core, d \in dedicated }

InitResolver ==
    /\ mode = "config"
    /\ pc = "idle"
    /\ state = EmptyDict
    /\ status = [n \in Nodes |-> "pending"]
    /\ updates = [n \in Nodes |-> EmptyDict]
    /\ events = <<>>
    /\ calls = <<>>
    /\ searches = <<>>
    /\ loader_raised = FALSE
    /\ step = {}
    /\ last_step = {}
    /\ final_state = EmptyDict
    /\ analysis_running = FALSE
    /\ analysis_result = <<>>
    /\ analysis_error = "None"
    /\ stream_container = FALSE
    /\ round_table_running = FALSE
    /\ run_review = <<>>
    /\ translation_batch = NoBatch
    /\ environ \in StartEnvirons
    /\ resolved = <<>>
    /\ renders = 0
    /\ stop_requested = FALSE
    /\ NoHistory
    /\ loader_call = <<>>
    /\ sink = <<>>
    /\ dialogue_history = <<>>
    /\ locals = EmptyDict
    /\ turn = 0
    /\ inflight = 0

resolverFrame == <<mode, pc, state, status, updates, events, calls, searches, loader_raised,
                   step, last_step, final_state, sessionVars, run_review, translation_batch,
                   historyVars, loader_call, reviewVars>>

\* one sidebar section is rendered; a handle resolved before is not kept
RenderModelConfig ==
    \E r \in Roles, is_enabled \in BOOLEAN, provider \in Providers, typed \in BOOLEAN :
        /\ mode = "config"
        /\ renders < MaxRenders
        /\ renders' = renders + 1
        /\ environ' = render_model_config_ui(environ, Prefix(r), is_enabled, provider, typed)
        /\ resolved' = <<>>
        /\ UNCHANGED <<stop_requested, resolverFrame>>

\* a role's model is resolved
ResolveModel ==
    \E r \in Roles, installed \in BOOLEAN :
        /\ mode = "config"
        /\ resolved' = << [role |-> r, environ |-> environ, installed |-> installed,
                           result |-> ResolveRole(r, environ, installed)] >>
        /\ UNCHANGED <<environ, renders, stop_requested, resolverFrame>>

NextResolver ==
    \/ RenderModelConfig
    \/ ResolveModel

SpecResolver == InitResolver /\ [][NextResolver]_vars

----------------------------------------------------------------------------
\* Properties

\* the model calls a node issued, in its current invocation
CallsOf(n) ==
    LET all == SelectSeq(calls, LAMBDA c : c.node = n)
    IN  IF n = "review_dialogue" /\ run_review # <<>>
        THEN SubSeq(all, Len(run_review[1].calls) + 1, Len(all))
        ELSE all

\* the positions of a node's outputs in the event sequence
Positions(n) == {i \in 1..Len(events) : events[i] = n}

Ended(n) == status[n] \in {"done", "raised"}

\* C1: generate_report is not started until all five fan-out nodes have
\* completed, whatever the order in which they complete.
C1_FanInBarrier ==
    status["generate_report"] # "pending"
        => \A t \in Tasks : status[t] = "done" /\ Positions(t) # {}

\* generate_report is running after the tasks completed in an order that is
\* not the order of declaration
C1_Witness ==
    /\ status["generate_report"] = "running"
    /\ Len(events) = 6
    /\ events[2] = "related_work_search"
    /\ events[6] = "translate"

\* C2: a successful run emits exactly 8 outputs, one per node;
\* generate_report's comes after the five tasks' and review_dialogue's after
\* generate_report's.
C2_EightEvents ==
    /\ \A i \in Positions("generate_report") : \A t \in Tasks :
            Positions(t) # {} /\ \A j \in Positions(t) : j < i
    /\ \A i \in Positions("review_dialogue") :
            Positions("generate_report") # {}
            /\ \A j \in Positions("generate_report") : j < i
    /\ pc = "done" =>
            /\ Len(events) = 8
            /\ \A n \in Nodes : Cardinality(Positions(n)) = 1

C2_Witness ==
    /\ pc = "done"
    /\ events[2] = "explain_terms"
    /\ events[6] = "extract_key_points"
    /\ events[8] = "review_dialogue"

\* C3 (as claimed): none of the five fan-out task nodes ever raises.
C3_TasksNeverRaise == \A t \in Tasks : status[t] # "raised"

\* C4 (as claimed): each fan-out task called with an empty doc_content returns
\* its placeholder and issues no model call, whatever the metadata contains.
C4_EmptyDocAnyMetadata ==
    \A t \in Tasks :
        (Ended(t) /\ Get(state, "doc_content", <<>>) = <<>>)
            => /\ status[t] = "done"
               /\ updates[t] = One(Field(t), Placeholder(t))
               /\ CallsOf(t) = <<>>

\* C4 (amended): translate, extract_key_points, extract_experiments and
\* explain_terms called with an empty doc_content return their placeholder
\* and issue no model call, whatever the metadata contains;
\* related_work_search does so when doc_content is empty and the metadata
\* carries no Title.
C4_EmptyDocPlaceholder ==
    \A t \in Tasks :
        (/\ Ended(t)
         /\ Get(state, "doc_content", <<>>) = <<>>
         /\ (t = "related_work_search"
                => Get(Get(state, "metadata", EmptyDict), "Title", <<>>) = <<>>))
            => /\ status[t] = "done"
               /\ updates[t] = One(Field(t), Placeholder(t))
               /\ CallsOf(t) = <<>>
               /\ searches = <<>>

\* related_work_search returned on an empty doc_content and a metadata
\* without Title
C4_Witness ==
    /\ status["related_work_search"] = "done"
    /\ "doc_content" \in DOMAIN state
    /\ state["doc_content"] = <<>>
    /\ "metadata" \in DOMAIN state
    /\ state["metadata"] = EmptyDict

\* C5 (as claimed): when the loader raises, load_paper_node's update sets
\* doc_content to the empty text, metadata to an empty mapping and figures to
\* an empty list.
C5_LoadFailureEmpty ==
    (loader_raised /\ Ended("load_paper"))
        => /\ status["load_paper"] = "done"
           /\ updates["load_paper"] = ("doc_content" :> <<>>) @@ ("metadata" :> EmptyDict)
                                      @@ ("figures" :> <<>>)

\* C6 (as claimed): when the loader raises, every fan-out task returns its
\* placeholder and issues no model call.
C6_LoadFailurePlaceholders ==
    \A t \in Tasks :
        (loader_raised /\ Ended(t))
            => /\ status[t] = "done"
               /\ updates[t] = One(Field(t), Placeholder(t))
               /\ CallsOf(t) = <<>>

\* C7 (as claimed): when generate_report or review_dialogue raises, the run
\* ends marked as failed and the state accumulated so far is the result the
\* caller holds.
C7_FunnelFailureKeepsState ==
    (pc = "failed" /\ (status["generate_report"] = "raised"
                       \/ status["review_dialogue"] = "raised"))
        => IF mode = "interactive"
           THEN /\ ~analysis_running
                /\ analysis_error # "None"
                /\ analysis_result = <<final_state>>
           ELSE final_state = state

\* C8: without a final_report (absent or empty) review_dialogue_node returns
\* the fixed message, issues no model call and streams nothing to the
\* container, in both dialogue modes.
C8_NoReportNoDialogue ==
    (status["review_dialogue"] # "pending" /\ Get(state, "final_report", <<>>) = <<>>)
        => /\ status["review_dialogue"] # "raised"
           /\ CallsOf("review_dialogue") = <<>>
           /\ inflight = 0
           /\ sink = <<>>
           /\ dialogue_history = <<>>
           /\ status["review_dialogue"] = "done"
                => updates["review_dialogue"] = One("review_dialogue", NoReport)

\* the node returned on an empty final_report with the simple variant
\* selected and a container registered
C8_Witness ==
    /\ status["review_dialogue"] = "done"
    /\ "final_report" \in DOMAIN state
    /\ state["final_report"] = <<>>
    /\ "enable_round_table" \in DOMAIN state
    /\ ~state["enable_round_table"]
    /\ stream_container

\* the persona an utterance is labelled with
Speaker(utterance) ==
    CASE utterance[1] \in {"Moderator", "Moderator - summary"} -> "MODERATOR"
      [] utterance[1] \in {"Critic", "Critic - follow-up"} -> "CRITIC"
      [] utterance[1] = "Practitioner" -> "PRACTITIONER"
      [] utterance[1] = "Author" -> "AUTHOR"
      [] utterance[1] \in {"Reader (Q1)", "Reader (Q2)", "Reader (Q3)", "Reader (Q4)",
                           "Reader (Final Feedback)"} -> "READER"
      [] utterance[1] \in {"Author (A1)", "Author (A2)", "Author (A3)", "Author (A4)"}
            -> "SIMPLE_AUTHOR"
      [] OTHER -> "NOBODY"

\* the number of "---" separators of a formatted dialogue
Separators(text) == Cardinality({i \in 1..Len(text) : text[i] = "---"})

RoundTableSelected(s) ==
    Get(s, "final_report", <<>>) # <<>> /\ Get(s, "enable_round_table", TRUE)

SimpleSelected(s) ==
    Get(s, "final_report", <<>>) # <<>> /\ ~Get(s, "enable_round_table", TRUE)

RoundTableOrder == <<"MODERATOR", "CRITIC", "AUTHOR", "PRACTITIONER", "AUTHOR",
                     "MODERATOR", "CRITIC", "AUTHOR", "MODERATOR">>

SimpleOrder == <<"READER", "SIMPLE_AUTHOR", "READER", "SIMPLE_AUTHOR", "READER",
                 "SIMPLE_AUTHOR", "READER", "SIMPLE_AUTHOR", "READER">>

\* the calls are issued one after another, each after the previous reply was
\* appended (a call that raised leaves no utterance); the utterances are those
\* personas' replies, in the order of the calls, none twice
InOrder(order) ==
    LET cs == CallsOf("review_dialogue")
        failed == IF status["review_dialogue"] = "raised" THEN 1 ELSE 0
    IN  /\ inflight \in {0, 1}
        /\ Len(cs) = Len(dialogue_history) + inflight + failed
        /\ Len(cs) <= Len(order)
        /\ \A i \in 1..Len(cs) : cs[i].prompt = order[i]
        /\ \A i \in 1..Len(dialogue_history) : Speaker(dialogue_history[i]) = order[i]
        /\ \A i, j \in 1..Len(dialogue_history) :
                i # j => dialogue_history[i] # dialogue_history[j]
        /\ status["review_dialogue"] = "done"
            => /\ Len(cs) = Len(order)
               /\ Len(dialogue_history) = Len(order)
               /\ updates["review_dialogue"]
                    = One("review_dialogue", FormatDialogue(dialogue_history))
               /\ Separators(updates["review_dialogue"]["review_dialogue"]) = Len(order) - 1

\* C9: with the round-table variant and a non-empty final_report the node
\* makes 9 model calls one after another and the transcript holds the 9
\* utterances Moderator, Critic, Author, Practitioner, Author, Moderator,
\* Critic, Author, Moderator in the order they were produced.
C9_RoundTableNine ==
    (RoundTableSelected(state) /\ status["review_dialogue"] # "pending")
        => InOrder(RoundTableOrder) /\ Len(RoundTableOrder) = 9

\* the round table ran to its end with enable_round_table absent
C9_Witness ==
    /\ RoundTableSelected(state)
    /\ status["review_dialogue"] = "done"
    /\ Len(dialogue_history) = 9
    /\ "enable_round_table" \notin DOMAIN state

\* C10: with the simple variant and a non-empty final_report the node makes 9
\* model calls: Reader question and Author answer for rounds 1 to 4, then the
\* Reader's closing rating; the first Reader turn is seeded by the report and
\* each later Reader turn by the Author answer just before it.
C10_SimpleNine ==
    (SimpleSelected(state) /\ status["review_dialogue"] # "pending")
        => LET cs == CallsOf("review_dialogue")
           IN  /\ InOrder(SimpleOrder) /\ Len(SimpleOrder) = 9
               /\ \A i \in 1..Len(cs) :
                    cs[i].inputs =
                        IF i = 1 THEN <<Slice(state["final_report"], ReportLimit)>>
                        ELSE IF SimpleOrder[i] = "READER"
                        THEN <<Tail(dialogue_history[i - 1])>>
                        ELSE <<Slice(Get(state, "doc_content", <<>>), DocLimit),
                               Tail(dialogue_history[i - 1])>>

\* the simple dialogue ran to its end
C10_Witness ==
    /\ SimpleSelected(state)
    /\ status["review_dialogue"] = "done"
    /\ Len(dialogue_history) = 9
    /\ Len(CallsOf("review_dialogue")) = 9

\* a is a prefix of b
IsPrefix(a, b) == Len(a) <= Len(b) /\ a = SubSeq(b, 1, Len(a))

\* C11 (as claimed): review_dialogue_node invoked by app.py on the stored
\* result of a completed run selects the same variant, issues the same model
\* calls in the same order and returns the same transcript as its invocation
\* inside that run.
C11_StandaloneSameAsRun ==
    (mode = "standalone" /\ status["review_dialogue"] # "pending")
        => /\ Script(state) = Script(run_review[1].state)
           /\ IsPrefix(CallsOf("review_dialogue"), run_review[1].calls)
           /\ status["review_dialogue"] = "done"
                => /\ CallsOf("review_dialogue") = run_review[1].calls
                   /\ updates["review_dialogue"] = run_review[1].update

\* C11 (amended): the invocation on the stored result always selects the
\* round-table variant; after a run whose enable_round_table was true it
\* issues the same calls in the same order and returns the same transcript as
\* the invocation inside the run; after a run whose enable_round_table was
\* false and whose report is not empty it performs the round table where the
\* run performed the simple dialogue.
C11_StandaloneRoundTable ==
    (mode = "standalone" /\ status["review_dialogue"] # "pending")
        => LET r == run_review[1]
               cs == CallsOf("review_dialogue")
           IN  /\ Script(state) = RoundTableTurns
               /\ r.state["enable_round_table"]
                    => /\ IsPrefix(cs, r.calls)
                       /\ status["review_dialogue"] = "done"
                            => cs = r.calls /\ updates["review_dialogue"] = r.update
               /\ (~r.state["enable_round_table"] /\ HasReport(state))
                    => /\ \A i \in 1..Len(cs) : cs[i].prompt = RoundTableOrder[i]
                       /\ \A i \in 1..Len(r.calls) : r.calls[i].prompt = SimpleOrder[i]
                       /\ status["review_dialogue"] = "done"
                            => updates["review_dialogue"] # r.update

\* the round table on the stored result ran to its end after a run that had
\* performed the round table itself
C11_Witness ==
    /\ mode = "standalone"
    /\ status["review_dialogue"] = "done"
    /\ run_review[1].state["enable_round_table"]
    /\ Len(CallsOf("review_dialogue")) = 9
    /\ Len(run_review[1].calls) = 9
    /\ analysis_result = <<final_state>>

\* the chunk-translation calls issued
ChunkCalls == SelectSeq(calls, LAMBDA c : c.prompt = "FULL_TRANSLATION")

\* C12: in full-translation mode at most 5 chunk-translation calls are in
\* flight at any moment, for any number of chunks.
C12_AtMostFiveInFlight ==
    /\ Cardinality(InFlight(translation_batch)) <= 5
    /\ Len(ChunkCalls) - Len(translation_batch.order) <= 5
    /\ Len(ChunkCalls) - Len(translation_batch.order)
            = Cardinality(InFlight(translation_batch))

\* five chunk calls are in flight while a sixth chunk waits
C12_Witness ==
    /\ translation_batch.phase = "batch"
    /\ Cardinality(InFlight(translation_batch)) = 5
    /\ NextQueued(translation_batch) = 6

\* translate_node returned after the glossary call or a chunk call raised
FullTranslationRaised ==
    /\ status["translate"] = "done"
    /\ translation_batch.phase = "over"
    /\ \/ Len(calls) = 1 /\ translation_batch.st = <<>>
       \/ \E i \in 1..Len(translation_batch.st) : translation_batch.st[i] = "failed"

\* C13: in full-translation mode, when the glossary call or any chunk call
\* fails, translate_node returns the error string and nothing of the chunks
\* that were translated.
C13_FailureGivesErrorString ==
    FullTranslationRaised
        => /\ updates["translate"] = One("translation", FullTranslationFailed)
           /\ \A k \in 1..Len(updates["translate"]["translation"]) :
                    updates["translate"]["translation"][k] # "LLM"

\* the node returned after one chunk call failed and another had returned
\* its translation
C13_Witness ==
    /\ FullTranslationRaised
    /\ \E i, j \in 1..Len(translation_batch.st) :
            /\ translation_batch.st[i] = "failed"
            /\ translation_batch.st[j] = "done"
            /\ translation_batch.out[j] # <<>>

\* translate_node returned the assembled translation
FullTranslationSucceeded ==
    /\ status["translate"] = "done"
    /\ translation_batch.phase = "over"
    /\ translation_batch.st # <<>>
    /\ \A i \in 1..Len(translation_batch.st) : translation_batch.st[i] = "done"

\* C14: in full-translation mode the glossary call has returned before any
\* chunk call starts, every chunk call receives the same glossary, and on
\* success the output is the glossary followed by the translations of all
\* chunks, one per chunk, in chunk order, whatever the order in which the
\* chunk calls ended.
C14_GlossaryThenChunksInOrder ==
    LET text == state["doc_content"]
        glossary == <<"LLM", "GLOSSARY">>
    IN  /\ calls # <<>> => calls[1].prompt = "GLOSSARY"
        /\ \A i \in 2..Len(calls) : calls[i].prompt = "FULL_TRANSLATION"
        /\ Len(calls) > 1 => translation_batch.glossary = glossary
        /\ translation_batch.phase = "glossary" => Len(calls) = 1
        /\ \A i \in 1..Len(ChunkCalls) : ChunkCalls[i].inputs = <<<<text[i]>>, glossary>>
        /\ FullTranslationSucceeded
            => /\ Len(ChunkCalls) = Len(text)
               /\ updates["translate"]["translation"]
                    = <<"### Glossary">> \o glossary \o <<"---", "### Full translation">>
                      \o Join([i \in 1..Len(text) |-> <<"LLM", "FULL_TRANSLATION", text[i]>>],
                              <<"\n\n">>)
               /\ updates["translate"] = translate_node(state, "ok").update

\* the translation was assembled after the chunk calls ended in an order
\* that is not the chunk order
C14_Witness ==
    /\ FullTranslationSucceeded
    /\ Len(translation_batch.order) >= 3
    /\ translation_batch.order[1] = 3
    /\ translation_batch.order[3] = 1

\* a query can be derived: the metadata carries a Title or doc_content is
\* not empty
HasQuery(s) ==
    \/ Get(Get(s, "metadata", EmptyDict), "Title", <<>>) # <<>>
    \/ Get(s, "doc_content", <<>>) # <<>>

\* no invocation gave something the node keeps: a hit list, or SerpAPI's
\* header around an empty answer
NoUsableResult ==
    \A i \in 1..Len(searches) :
        /\ searches[i].outcome # "results"
        /\ searches[i].backend = "SerpAPI" => searches[i].outcome = "failed"

C15_WitnessNoResults ==
    /\ status["related_work_search"] = "done"
    /\ SearchKeys(environ) = {"Tavily", "SerpAPI"}
    /\ HasQuery(state)
    /\ NoUsableResult
    /\ Len(searches) = 6

\* sub occurs in text
Contains(text, sub) ==
    \E i \in 0..(Len(text) - Len(sub)) : SubSeq(text, i + 1, i + Len(sub)) = sub

\* exactly one backend has its key set and its invocations returned results
OneBackendWithResults(b) ==
    /\ status["related_work_search"] = "done"
    /\ HasQuery(state)
    /\ SearchKeys(environ) = {b}
    /\ searches # <<>>
    /\ \A i \in 1..Len(searches) : searches[i].outcome = "results"

\* C16 (as claimed): with exactly one backend configured and returning
\* results, the output of related_work_search_node is not empty and contains
\* that backend's label header.
C16_OutputHasHeader ==
    \A b \in Backends :
        OneBackendWithResults(b)
            => LET out == updates["related_work_search"]["related_work_search"]
               IN  /\ out # <<>>
                   /\ Contains(out, Header(b, "English"))

\* C16 (amended): with exactly one backend configured and returning results
\* the node issues one synthesis call whose search_results input is not empty
\* and carries that backend's three label headers and hits; the output is
\* what the model returns (possibly empty, without the header), and carries
\* the headers itself only when the synthesis call fails.
C16_HeaderInSynthesisInput ==
    \A b \in Backends :
        OneBackendWithResults(b)
            => LET out == updates["related_work_search"]["related_work_search"]
                   cs == CallsOf("related_work_search")
               IN  /\ Len(cs) = 1
                   /\ cs[1].prompt = "RELATED_WORK"
                   /\ cs[1].inputs[2] # <<>>
                   /\ \A i \in 1..Len(Variants) :
                        /\ Contains(cs[1].inputs[2], Header(b, Variants[i]))
                        /\ Contains(cs[1].inputs[2], Hits(b, Variants[i]))
                   /\ \/ out = <<>>
                      \/ out = <<"LLM", "RELATED_WORK">>
                      \/ /\ out[1] = "Error processing search results:"
                         /\ Contains(out, cs[1].inputs[2])

\* the node returned the model's summary of the one configured backend's
\* results
C16_Witness ==
    /\ OneBackendWithResults("Tavily")
    /\ Len(searches) = 3
    /\ updates["related_work_search"] = One("related_work_search", <<"LLM", "RELATED_WORK">>)

\* the title the loader stored in the metadata, under either spelling of the
\* key (<<>>: none)
StoredTitle(md) ==
    IF "Title" \in DOMAIN md THEN md["Title"]
    ELSE IF "title" \in DOMAIN md THEN md["title"]
    ELSE <<>>

\* C17 (as claimed): related_work_search_node builds its query from the
\* title the loader stored in metadata whenever it stored one, from the first
\* line of doc_content only when the metadata carries no title, and with
\* neither it returns the "no title or content" message without any search
\* or model call.
C17_QueryFromStoredTitle ==
    status["related_work_search"] = "done"
        => LET md == Get(state, "metadata", EmptyDict)
               text == Get(state, "doc_content", <<>>)
               q == IF StoredTitle(md) # <<>> THEN StoredTitle(md)
                    ELSE IF text # <<>> THEN Slice(<<text[1]>>, TitleLimit)
                    ELSE <<>>
               cs == CallsOf("related_work_search")
           IN  /\ \A i \in 1..Len(searches) : searches[i].title = q
               /\ \A i \in 1..Len(cs) : cs[i].inputs[1] = q
               /\ q = <<>>
                    => /\ updates["related_work_search"]
                            = One("related_work_search", NoTitleOrContent)
                       /\ searches = <<>>
                       /\ cs = <<>>

\* the provider a role is configured with ("None": not configured)
ConfiguredProvider(role, env) ==
    IF role = "core" THEN Getenv(env, "LLM_PROVIDER", "None")
    ELSE LET p == Getenv(env, Prefix(role) \o "LLM_PROVIDER", "None")
         IN  IF p = "" THEN "None" ELSE p

\* C18: resolving a non-core role whose provider is not configured (absent
\* or "None", also after its section was disabled in the UI) gives what
\* resolving the core role gives: same provider kind, model, credentials,
\* base URL and temperature 0.
C18_UnconfiguredRoleIsCore ==
    resolved # <<>>
        => LET r == resolved[1]
               core == ResolveRole("core", r.environ, r.installed)
           IN  (r.role # "core" /\ ConfiguredProvider(r.role, r.environ) = "None")
                    => /\ r.result.raised = core.raised
                       /\ r.result.kind = core.kind
                       /\ r.result.model = core.model
                       /\ r.result.api_key = core.api_key
                       /\ r.result.base_url = core.base_url
                       /\ r.result.temperature = 0
                       /\ r.result = core

\* the review role was resolved after a section render, with no
\* REVIEW_LLM_PROVIDER set and the core provider Anthropic
C18_Witness ==
    /\ resolved # <<>>
    /\ resolved[1].role = "review"
    /\ renders = 1
    /\ resolved[1].environ = environ
    /\ "REVIEW_LLM_PROVIDER" \notin DOMAIN environ
    /\ Getenv(environ, "LLM_PROVIDER", "None") = "Anthropic"
    /\ resolved[1].installed
    /\ resolved[1].result.kind = "ChatAnthropic"

\* C19 (as claimed): resolving a role whose configured provider kind is not
\* a supported one fails at resolution time and returns no handle.
C19_UnsupportedProviderFails ==
    resolved # <<>>
        => LET r == resolved[1]
           IN  ConfiguredProvider(r.role, r.environ) \notin (Providers \cup {"None"})
                    => r.result.raised

\* the six slots of the report request, in the order of the call, and the
\* state field each is read from
ReportSlots == <<"source", "translation", "key_points", "experiments", "terms",
                 "related_work_search">>

\* generate_report_node issued exactly one model call, with six slots
OneReportCall ==
    /\ Len(CallsOf("generate_report")) = 1
    /\ CallsOf("generate_report")[1].prompt = "REPORT"
    /\ Len(CallsOf("generate_report")[1].inputs) = Len(ReportSlots)
    /\ Len(ReportSlots) = 6

\* C20 (as claimed): generate_report_node makes exactly one model call whose
\* request carries the six slots, every input missing from the state being
\* passed as "N/A".
C20_MissingInputsAreNA ==
    Ended("generate_report")
        => /\ OneReportCall
           /\ \A i \in 1..Len(ReportSlots) :
                CallsOf("generate_report")[1].inputs[i]
                    = IF ReportSlots[i] \in DOMAIN state THEN state[ReportSlots[i]]
                      ELSE <<"N/A">>

\* C20 (amended): generate_report_node makes exactly one model call whose
\* request carries the six slots; a missing translation, key_points,
\* experiments, terms or related_work is passed as "N/A", a missing source as
\* "Unknown".
C20_MissingInputsAreNAOrUnknown ==
    Ended("generate_report")
        => /\ OneReportCall
           /\ \A i \in 1..Len(ReportSlots) :
                CallsOf("generate_report")[1].inputs[i]
                    = IF ReportSlots[i] \in DOMAIN state THEN state[ReportSlots[i]]
                      ELSE IF ReportSlots[i] = "source" THEN <<"Unknown">>
                      ELSE <<"N/A">>

\* the node returned on a state with a translation and without source,
\* key_points, experiments, terms and related_work_search
C20_Witness ==
    /\ status["generate_report"] = "done"
    /\ DOMAIN state \cap {ReportSlots[i] : i \in 1..6} = {"translation"}
    /\ CallsOf("generate_report")[1].inputs
            = << <<"Unknown">>, <<"LLM", "translation">>, <<"N/A">>, <<"N/A">>, <<"N/A">>,
                 <<"N/A">> >>

----------------------------------------------------------------------------
\* C21

\* the fields each node owns
Owned(n) ==
    CASE n = "load_paper" -> {"doc_content", "metadata", "figures"}
      [] n = "translate" -> {"translation"}
      [] n = "extract_key_points" -> {"key_points"}
      [] n = "extract_experiments" -> {"experiments"}
      [] n = "explain_terms" -> {"terms"}
      [] n = "related_work_search" -> {"related_work_search"}
      [] n = "generate_report" -> {"final_report"}
      [] OTHER -> {"review_dialogue"}

InRun == mode \in {"interactive", "batch"}

\* C21: in every run each node's update contains only the fields the node
\* owns, the owned sets of the eight nodes are pairwise disjoint and none
\* holds source; a field of the workflow state, once present, keeps its value
\* for the rest of the run, and source keeps its initial value.
C21_OwnedFieldsOnly ==
    /\ [](/\ \A n \in Nodes : DOMAIN updates[n] \subseteq Owned(n)
          /\ \A n \in Nodes : \A m \in Nodes \ {n} : Owned(n) \cap Owned(m) = {}
          /\ \A n \in Nodes : "source" \notin Owned(n)
          /\ (InRun /\ pc # "refused")
                => "source" \in DOMAIN state /\ state["source"] = Source)
    /\ [][InRun /\ mode' = mode
            => \A k \in DOMAIN state : k \in DOMAIN state' /\ state'[k] = state[k]]_vars

\* an interactive run ended after all eight nodes wrote their fields
C21_Witness ==
    /\ mode = "interactive"
    /\ pc = "done"
    /\ \A n \in Nodes : status[n] = "done" /\ DOMAIN updates[n] = Owned(n)
    /\ DOMAIN state = UNION {Owned(n) : n \in Nodes}
                        \cup {"source", "is_full_translation", "use_vlm_parsing",
                              "enable_round_table"}

----------------------------------------------------------------------------
\* C22

\* C22: after a successful interactive run the stored result equals the
\* accumulated workflow state: the initial state (source and the
\* configuration flags) merged with the updates of the eight nodes.
C22_ResultIsAccumulatedState ==
    (mode = "interactive" /\ pc = "done")
        => /\ analysis_result # <<>>
           /\ DOMAIN analysis_result[1] = DOMAIN state
           /\ \A k \in DOMAIN state : analysis_result[1][k] = state[k]

----------------------------------------------------------------------------
\* C23

\* some node has started or ended
SomeNodeRan == \E n \in Nodes : status[n] # "pending"

\* C23: when the credential required by the configured core provider is
\* missing, the run fails before any workflow node executes: no node runs and
\* no completion event is emitted, in the batch and in the interactive mode.
C23_MissingCredentialFailsFast ==
    (InRun /\ CredentialMissing("core", environ))
        => /\ ~SomeNodeRan
           /\ events = <<>>
           /\ pc # "done"

----------------------------------------------------------------------------
\* C24

\* A run that is not cancelled, in an environment holding the model's key,
\* under the engine's scheduling: a started superstep's nodes are run to their
\* end, the next superstep is started when one is due, and the stream is
\* closed when none is: every call a node makes ends. Starting an analysis is
\* the user's choice and is not forced.
InitLive == Init /\ "OPENAI_API_KEY" \in DOMAIN environ /\ ~CredentialMissing("core", environ)

NextLive ==
    \/ StartInteractive
    \/ StartBatch
    \/ StartStep
    \/ EndOfStream
    \/ NodeStep

SpecLive ==
    InitLive /\ [][NextLive]_vars
             /\ WF_vars(StartStep) /\ WF_vars(NodeStep) /\ WF_vars(EndOfStream)

SomeNodeRaised == \E n \in Nodes : status[n] = "raised"

\* the review_dialogue event was emitted, as the last one
ReviewEventLast ==
    /\ events # <<>>
    /\ events[Len(events)] = "review_dialogue"
    /\ \A i \in 1..(Len(events) - 1) : events[i] # "review_dialogue"

\* C24: when no call fails, every started run
\* eventually emits the review_dialogue event and ends; the event sequence is
\* finite (at most one event per node) and no event follows the
\* review_dialogue event.
C24_RunEndsAfterReviewEvent ==
    /\ [](/\ Len(events) <= Cardinality(Nodes)
          /\ \A i \in 1..(Len(events) - 1) : events[i] # "review_dialogue")
    /\ (InRun /\ pc = "running")
            ~> (SomeNodeRaised \/ (pc = "done" /\ ReviewEventLast))

\* a run ended by the review_dialogue event, no call having failed
C24_Witness ==
    /\ InRun
    /\ pc = "done"
    /\ ~SomeNodeRaised
    /\ ~loader_raised
    /\ ReviewEventLast
    /\ Len(events) = Cardinality(Nodes)

----------------------------------------------------------------------------
\* C25

\* the cancellation was observed: the script run was interrupted and
\* stop_analysis cleared analysis_running
StopObserved == mode = "interactive" /\ pc = "stopped"

\* C25: once the cancellation is observed during a run, no node that had not
\* been dispatched is dispatched afterwards, and only nodes in flight may
\* complete: a node's status changes only from running, and no further event
\* is emitted.
C25_NoDispatchAfterStop ==
    [][StopObserved
        => /\ StopObserved'
           /\ \A n \in Nodes : status'[n] # status[n] => status[n] = "running"
           /\ events' = events
           /\ state' = state]_vars

\* the cancellation was observed after the first task's event while other
\* tasks were in flight; they completed, and generate_report and
\* review_dialogue were never dispatched
C25_Witness ==
    /\ StopObserved
    /\ stop_requested
    /\ ~analysis_running
    /\ events = <<"load_paper", "translate">>
    /\ \A n \in Tasks : status[n] = "done"
    /\ status["generate_report"] = "pending"
    /\ status["review_dialogue"] = "pending"

----------------------------------------------------------------------------
\* The history store (src/src/history.py). A str is a text; a path is the
\* text of its components; the database and the file system do not fail.

\* json.dumps / json.loads on the values a state dict holds: a JSON document
\* is the sequence of its tokens
Quote == "\""
Backslash == "\\"

RECURSIVE Escape(_)
Escape(text) ==
    IF text = <<>> THEN <<>>
    ELSE (IF Head(text) \in {Quote, Backslash} THEN <<Backslash, Head(text)>>
          ELSE <<Head(text)>>) \o Escape(Tail(text))

DumpsStr(text) == <<Quote>> \o Escape(text) \o <<Quote>>

DumpsList(list) ==
    <<"[">> \o Join([i \in 1..Len(list) |-> DumpsStr(list[i])], <<",">>) \o <<"]">>

\* the keys of a dict in the order they were inserted
StateKeyOrder == <<"source", "metadata", "final_report", "is_full_translation", "figures">>
MetadataKeyOrder == <<"Title", "title">>
KeysOf(d, order) == SelectSeq(order, LAMBDA k : k \in DOMAIN d)

DumpsMetadata(d) ==
    LET keys == KeysOf(d, MetadataKeyOrder)
    IN  <<"{">> \o Join([i \in 1..Len(keys) |->
                            DumpsStr(<<keys[i]>>) \o <<":">> \o DumpsStr(d[keys[i]])],
                        <<",">>) \o <<"}">>

\* the encoder dispatches on the value's type
DumpsValue(k, v) ==
    CASE k = "figures" -> DumpsList(v)
      [] k = "metadata" -> DumpsMetadata(v)
      [] k = "is_full_translation" -> IF v THEN <<"true">> ELSE <<"false">>
      [] OTHER -> DumpsStr(v)

json_dumps(d) ==
    LET keys == KeysOf(d, StateKeyOrder)
    IN  <<"{">> \o Join([i \in 1..Len(keys) |->
                            DumpsStr(<<keys[i]>>) \o <<":">> \o DumpsValue(keys[i], d[keys[i]])],
                        <<",">>) \o <<"}">>

\* the decoder: each Parse.. takes the tokens that follow the opening token
\* and returns the value with the tokens left
RECURSIVE ParseStringBody(_)
ParseStringBody(toks) ==
    IF toks[1] = Quote THEN [value |-> <<>>, rest |-> Tail(toks)]
    ELSE IF toks[1] = Backslash
    THEN LET r == ParseStringBody(Tail(Tail(toks)))
         IN  [value |-> <<toks[2]>> \o r.value, rest |-> r.rest]
    ELSE LET r == ParseStringBody(Tail(toks))
         IN  [value |-> <<toks[1]>> \o r.value, rest |-> r.rest]

RECURSIVE ParseValue(_)
RECURSIVE ParseItems(_)
RECURSIVE ParseMembers(_)
ParseValue(toks) ==
    CASE toks[1] = Quote -> ParseStringBody(Tail(toks))
      [] toks[1] = "[" -> ParseItems(Tail(toks))
      [] toks[1] = "{" -> ParseMembers(Tail(toks))
      [] toks[1] = "true" -> [value |-> TRUE, rest |-> Tail(toks)]
      [] OTHER -> [value |-> FALSE, rest |-> Tail(toks)]

ParseItems(toks) ==
    IF toks[1] = "]" THEN [value |-> <<>>, rest |-> Tail(toks)]
    ELSE LET v == ParseValue(toks)
             r == ParseItems(IF v.rest[1] = "," THEN Tail(v.rest) ELSE v.rest)
         IN  [value |-> <<v.value>> \o r.value, rest |-> r.rest]

ParseMembers(toks) ==
    IF toks[1] = "}" THEN [value |-> EmptyDict, rest |-> Tail(toks)]
    ELSE LET k == ParseStringBody(Tail(toks))
             v == ParseValue(Tail(k.rest))
             r == ParseMembers(IF v.rest[1] = "," THEN Tail(v.rest) ELSE v.rest)
         IN  [value |-> r.value @@ (k.value[1] :> v.value), rest |-> r.rest]

\* json.loads: JSONDecodeError when the text is not a document
json_loads(toks) ==
    IF toks = <<>> \/ toks[1] # "{" THEN [ok |-> FALSE, value |-> EmptyDict]
    ELSE [ok |-> TRUE, value |-> ParseMembers(Tail(toks)).value]

\* os.path.basename, os.path.join
Basename(path) == IF path = <<>> THEN <<>> ELSE <<path[Len(path)]>>

\* the file names s for which s.lower().endswith(".pdf")
PdfFileNames == {"paper.pdf", "Paper.PDF"}

ImagesDir == <<"history_data", "images">>
SummaryLimit == 200

\* str(uuid.uuid4()): the n-th id drawn, never one drawn before
IdNames == <<"id1", "id2", "id3", "id4", "id5">>

\* the paths under a directory
Under(dir, files) ==
    {p \in files : Len(p) >= Len(dir) /\ SubSeq(p, 1, Len(dir)) = dir}

\* save_analysis(state): the id returned, the store afterwards, and the
\* caller's state dict as the call leaves it
save_analysis_in_place(h, s) ==
    LET record_id == IdNames[h.issued + 1]
        metadata == Get(s, "metadata", EmptyDict)
        title == IF Get(metadata, "Title", <<>>) # <<>> THEN metadata["Title"]
                 ELSE IF Get(metadata, "title", <<>>) # <<>> THEN metadata["title"]
                 ELSE <<"Untitled Analysis">>
        source_name == Basename(Get(s, "source", <<"Unknown Source">>))
        source_type == IF source_name # <<>> /\ source_name[1] \in PdfFileNames
                       THEN "PDF" ELSE "Arxiv"
        report == Get(s, "final_report", <<>>)
        summary == IF report # <<>> THEN Slice(report, SummaryLimit) \o <<"...">>
                   ELSE <<"No summary available.">>
        original_figures == Get(s, "figures", <<>>)
        record_images_dir == ImagesDir \o <<record_id>>
        copied == SelectSeq(original_figures, LAMBDA p : p \in h.files)
        new_figures_paths == [i \in 1..Len(copied) |-> record_images_dir \o Basename(copied[i])]
        persistent_state == ("figures" :> new_figures_paths) @@ s
        row == [id |-> record_id, timestamp |-> h.issued + 1, title |-> title,
                source_type |-> source_type, source_name |-> source_name,
                summary |-> summary, keywords |-> <<"Analysis, Paper">>,
                state_json |-> json_dumps(persistent_state)]
    IN  [record_id |-> record_id,
         store |-> [rows |-> (record_id :> row) @@ h.rows,
                    files |-> IF original_figures # <<>>
                              THEN h.files \cup {record_images_dir}
                                    \cup {new_figures_paths[i] : i \in 1..Len(copied)}
                              ELSE h.files,
                    issued |-> h.issued + 1],
         state |-> persistent_state]
save_analysis(h, s) ==
    LET record_id == IdNames[h.issued + 1]
        metadata == Get(s, "metadata", EmptyDict)
        title == IF Get(metadata, "Title", <<>>) # <<>> THEN metadata["Title"]
                 ELSE IF Get(metadata, "title", <<>>) # <<>> THEN metadata["title"]
                 ELSE <<"Untitled Analysis">>
        source_name == Basename(Get(s, "source", <<"Unknown Source">>))
        source_type == IF source_name # <<>> /\ source_name[1] \in PdfFileNames
                       THEN "PDF" ELSE "Arxiv"
        report == Get(s, "final_report", <<>>)
        summary == IF report # <<>> THEN Slice(report, SummaryLimit) \o <<"...">>
                   ELSE <<"No summary available.">>
        original_figures == Get(s, "figures", <<>>)
        record_images_dir == ImagesDir \o <<record_id>>
        copied == SelectSeq(original_figures, LAMBDA p : p \in h.files)
        new_figures_paths == [i \in 1..Len(copied) |-> record_images_dir \o Basename(copied[i])]
        \* persistent_state = state.copy(): the assignment below is on the copy
        persistent_state == ("figures" :> new_figures_paths) @@ s
        row == [id |-> record_id, timestamp |-> h.issued + 1, title |-> title,
                source_type |-> source_type, source_name |-> source_name,
                summary |-> summary, keywords |-> <<"Analysis, Paper">>,
                state_json |-> json_dumps(persistent_state)]
    IN  [record_id |-> record_id,
         store |-> [rows |-> (record_id :> row) @@ h.rows,
                    files |-> IF original_figures # <<>>
                              THEN h.files \cup {record_images_dir}
                                    \cup {new_figures_paths[i] : i \in 1..Len(copied)}
                              ELSE h.files,
                    issued |-> h.issued + 1],
         state |-> s]

\* get_analysis_by_id(record_id): <<state>>, or <<>> for None
get_analysis_by_id(h, record_id) ==
    IF record_id \in DOMAIN h.rows
    THEN LET doc == json_loads(h.rows[record_id].state_json)
         IN  IF doc.ok THEN <<doc.value>> ELSE <<>>
    ELSE <<>>

\* delete_analysis(record_id): the result and the store afterwards
delete_analysis_keeps_row(h, record_id) ==
    IF record_id \notin DOMAIN h.rows THEN [result |-> FALSE, store |-> h]
    ELSE [result |-> TRUE,
          store |-> [h EXCEPT !.files = h.files \ Under(ImagesDir \o <<record_id>>, h.files)]]
delete_analysis(h, record_id) ==
    IF record_id \notin DOMAIN h.rows THEN [result |-> FALSE, store |-> h]
    ELSE [result |-> TRUE,
          store |-> [rows |-> [i \in DOMAIN h.rows \ {record_id} |-> h.rows[i]],
                     files |-> h.files \ Under(ImagesDir \o <<record_id>>, h.files),
                     issued |-> h.issued]]

\* The store driven by any sequence of calls
MaxSaves == 2

\* the ids a caller may ask for: those issued, and one never issued
AskedIds == {IdNames[i] : i \in 1..(MaxSaves + 1)}

\* the states saved: nothing at all; a full result with one figure; a result
\* whose second figure is no longer on disk; two figures of the same file
\* name; an empty figure list
HistoryStates ==
    { EmptyDict,
      ("source" :> <<"uploads", "paper.pdf">>)
        @@ ("metadata" :> One("Title", <<"On", Quote, "X", Quote, Backslash>>))
        @@ ("final_report" :> <<"report", "text">>)
        @@ ("is_full_translation" :> TRUE)
        @@ ("figures" :> << <<"temp", "figures", "s1", "fig1.png">> >>),
      ("source" :> Source)
        @@ ("figures" :> << <<"temp", "figures", "s1", "fig1.png">>,
                            <<"temp", "figures", "s1", "gone.png">> >>),
      ("metadata" :> One("title", <<"paper.pdf">>))
        @@ ("figures" :> << <<"temp", "figures", "s1", "fig1.png">>,
                            <<"temp", "figures", "s2", "fig1.png">>,
                            <<"temp", "figures", "s1", "fig2.png">> >>),
      ("final_report" :> <<"report", "text">>) @@ ("is_full_translation" :> FALSE)
        @@ ("figures" :> <<>>) }

InitHistory ==
    /\ mode = "history"
    /\ pc = "idle"
    /\ state = EmptyDict
    /\ status = [n \in Nodes |-> "pending"]
    /\ updates = [n \in Nodes |-> EmptyDict]
    /\ events = <<>>
    /\ calls = <<>>
    /\ searches = <<>>
    /\ loader_raised = FALSE
    /\ step = {}
    /\ last_step = {}
    /\ final_state = EmptyDict
    /\ analysis_running = FALSE
    /\ analysis_result = <<>>
    /\ analysis_error = "None"
    /\ stream_container = FALSE
    /\ round_table_running = FALSE
    /\ run_review = <<>>
    /\ translation_batch = NoBatch
    /\ environ = BaseEnviron
    /\ resolved = <<>>
    /\ renders = 0
    /\ stop_requested = FALSE
    /\ NoHistory
    /\ loader_call = <<>>
    /\ sink = <<>>
    /\ dialogue_history = <<>>
    /\ locals = EmptyDict
    /\ turn = 0
    /\ inflight = 0

historyFrame == <<mode, pc, state, status, updates, events, calls, searches, loader_raised,
                  step, last_step, final_state, sessionVars, run_review, translation_batch,
                  configVars, reviewVars>>

SaveAnalysis ==
    \E s \in HistoryStates :
        /\ mode = "history"
        /\ history_store.issued < MaxSaves
        /\ LET r == save_analysis(history_store, s)
           IN  /\ history_store' = r.store
               /\ history_call' = [op |-> "save", id |-> r.record_id, arg |-> s,
                                   result |-> <<r.record_id>>, state_after |-> r.state]
               /\ history_saved' = (r.record_id :> [state |-> s, deleted |-> FALSE])
                                    @@ history_saved
        /\ UNCHANGED <<historyFrame, loader_call>>

GetAnalysisById ==
    \E id \in AskedIds :
        /\ mode = "history"
        /\ history_call' = [op |-> "get", id |-> id, arg |-> EmptyDict,
                            result |-> get_analysis_by_id(history_store, id),
                            state_after |-> EmptyDict]
        /\ UNCHANGED <<history_store, history_saved, historyFrame, loader_call>>

DeleteAnalysis(id) ==
    /\ mode = "history"
    /\ LET r == delete_analysis(history_store, id)
       IN  /\ history_store' = r.store
           /\ history_call' = [op |-> "delete", id |-> id, arg |-> EmptyDict,
                               result |-> <<r.result>>, state_after |-> EmptyDict]
    /\ history_saved' = IF id \in DOMAIN history_saved
                        THEN [history_saved EXCEPT ![id].deleted = TRUE]
                        ELSE history_saved
    /\ UNCHANGED <<historyFrame, loader_call>>

NextHistory ==
    \/ SaveAnalysis
    \/ GetAnalysisById
    \/ \E id \in AskedIds : DeleteAnalysis(id)

SpecHistory == InitHistory /\ [][NextHistory]_vars

----------------------------------------------------------------------------
\* C26

SameDict(a, b) == DOMAIN a = DOMAIN b /\ \A k \in DOMAIN a : a[k] = b[k]

\* the persisted copies of a state's figures under a record's directory: one
\* per figure that was on disk, under its file name
PersistedCopies(s, id) ==
    LET figs == Get(s, "figures", <<>>)
        on_disk == SelectSeq(figs, LAMBDA p : p \in TempFiles)
    IN  [i \in 1..Len(on_disk) |-> <<"history_data", "images", id, on_disk[i][Len(on_disk[i])]>>]

\* the ids returned by save_analysis and not deleted since
Live == {id \in DOMAIN history_saved : ~history_saved[id].deleted}

\* what get_analysis_by_id is to return for an id
Retrievable(found, id) ==
    IF id \in Live
    THEN /\ found # <<>>
         /\ SameDict(found[1], ("figures" :> PersistedCopies(history_saved[id].state, id))
                                  @@ history_saved[id].state)
    ELSE found = <<>>

\* C26: after any sequence of saves and deletes, get_analysis_by_id returns
\* the saved state with figures replaced by the paths of the persisted copies
\* for every id returned by save_analysis and not deleted since, and None for
\* every other id; each save returned an id no earlier save returned; and
\* save_analysis leaves the state passed to it as it was.
C26_GetReturnsWhatWasSaved ==
    /\ \A id \in AskedIds : Retrievable(get_analysis_by_id(history_store, id), id)
    /\ history_call.op = "get" => Retrievable(history_call.result, history_call.id)
    /\ Cardinality(DOMAIN history_saved) = history_store.issued
    /\ history_call.op = "save"
        => /\ history_call.id \in DOMAIN history_saved
           /\ SameDict(history_call.state_after, history_call.arg)

\* a state whose second figure was no longer on disk was saved and read back
\* after another record had been deleted: the title with its quotes and the
\* one persisted path came back
C26_Witness ==
    /\ history_call.op = "get"
    /\ history_call.id = "id2"
    /\ DOMAIN history_saved = {"id1", "id2"}
    /\ history_saved["id1"].deleted
    /\ Live = {"id2"}
    /\ "figures" \in DOMAIN history_saved["id2"].state
    /\ Len(history_saved["id2"].state["figures"]) = 2
    /\ history_call.result[1]["figures"] = << <<"history_data", "images", "id2", "fig1.png">> >>
    /\ history_call.result[1]["source"] = Source

\* a saved title with quotes and a backslash came back as it was
C26_WitnessEscapes ==
    /\ history_call.op = "get"
    /\ history_call.result # <<>>
    /\ "metadata" \in DOMAIN history_call.result[1]
    /\ Get(history_call.result[1]["metadata"], "Title", <<>>) = <<"On", Quote, "X", Quote, Backslash>>

----------------------------------------------------------------------------
\* C27

\* the images kept for a record
ImagesOf(h, id) == {p \in h.files : Len(p) >= 3 /\ SubSeq(p, 1, 3) = <<"history_data", "images", id>>}

----------------------------------------------------------------------------
\* C28

\* the replies of the discussion that precede the closing turn
EarlierExchanges == {"critic_q", "practitioner_q", "critic_q2",
                     "author_a1", "author_a2", "author_a3"}

\* C28: in the round-table variant the request of the closing Moderator turn
\* (the ninth call) carries every earlier exchange: the Critic's and the
\* Practitioner's questions, the Critic's follow-up and the three Author
\* answers.
C28_ClosingTurnSeesDiscussion ==
    (RoundTableSelected(state) /\ Len(CallsOf("review_dialogue")) >= 9)
        => LET c == CallsOf("review_dialogue")[9]
           IN  \A v \in EarlierExchanges :
                 \E j \in 1..Len(c.inputs) : c.inputs[j] = DialogueReply(v)

----------------------------------------------------------------------------
\* C29

FailureMarkers == {"Exa Search failed:", "Search failed:", "SerpAPI Search failed:"}

\* the raw combined results handed to the synthesis call
RawResults == CallsOf("related_work_search")[1].inputs[2]

\* C29: a failure of a search-backend call, or of the synthesis model call,
\* never makes related_work_search_node raise. Every query of a backend whose
\* key is set is issued whatever the earlier ones did; a failed query has no
\* entry in the combined results while each query with results has one; and
\* the node's output is the model's reply or, when the synthesis call fails,
\* an error string that ends with the raw combined results.
C29_SearchAndSynthesisFailuresAreAbsorbed ==
    /\ status["related_work_search"] # "raised"
    /\ (mode = "node" /\ status["related_work_search"] = "done" /\ HasQuery(state))
        => /\ Len(searches) = 3 * Cardinality(SearchKeys(environ))
           /\ \A i \in 1..Len(searches) : searches[i].backend \in SearchKeys(environ)
           /\ \A b \in SearchKeys(environ) : \A v \in {"English", "Chinese", "GitHub"} :
                \E i \in 1..Len(searches) :
                    searches[i].backend = b /\ searches[i].variant = v
           /\ Len(CallsOf("related_work_search")) <= 1
           /\ Len(CallsOf("related_work_search")) = 1
                => /\ \A i \in 1..Len(searches) :
                        /\ searches[i].outcome = "failed"
                            => ~Contains(RawResults,
                                         Header(searches[i].backend, searches[i].variant))
                        /\ searches[i].outcome = "results"
                            => Contains(RawResults,
                                        Header(searches[i].backend, searches[i].variant)
                                        \o Hits(searches[i].backend, searches[i].variant))
                   /\ \A j \in 1..Len(RawResults) : RawResults[j] \notin FailureMarkers
                   /\ updates["related_work_search"]["related_work_search"]
                        \in { <<"LLM", "RELATED_WORK">>, <<>>,
                              <<"Error processing search results:", "Raw Results:">>
                                \o RawResults }

\* the first Exa query failed, the eight later queries ran and returned
\* results, the synthesis call failed, and the output is the error string
\* followed by the eight entries
C29_Witness ==
    /\ mode = "node"
    /\ status["related_work_search"] = "done"
    /\ Len(searches) = 9
    /\ searches[1].outcome = "failed"
    /\ \A i \in 2..9 : searches[i].outcome = "results"
    /\ Len(CallsOf("related_work_search")) = 1
    /\ updates["related_work_search"]["related_work_search"]
            = <<"Error processing search results:", "Raw Results:">> \o RawResults
    /\ Contains(RawResults, Header("SerpAPI", "GitHub") \o Hits("SerpAPI", "GitHub"))
    /\ ~Contains(RawResults, Header("Exa", "English"))

----------------------------------------------------------------------------
\* C30

\* a turn's model call failed inside review_dialogue_node
TurnFailed ==
    /\ Len(CallsOf("review_dialogue")) = turn + 1
    /\ inflight = 0
    /\ status["review_dialogue"] # "running"

\* C30: when the model call of a turn fails inside review_dialogue_node the
\* node raises to its caller, the failed call is its last one (no further
\* call, no retry) and no review_dialogue field is written: the utterances
\* produced before the failure are not returned.
C30_TurnFailureRaises ==
    /\ [](mode = "node"
            => /\ TurnFailed
                    => /\ status["review_dialogue"] = "raised"
                       /\ pc = "failed"
                       /\ updates["review_dialogue"] = EmptyDict
                       /\ Len(dialogue_history) = turn
               /\ status["review_dialogue"] = "raised" => TurnFailed)
    /\ [][(mode = "node" /\ status["review_dialogue"] = "raised")
            => /\ calls' = calls
               /\ updates' = updates
               /\ status' = status]_vars

\* the fourth call of a dialogue failed: three utterances had been produced
\* and streamed, and none is returned
C30_Witness ==
    /\ mode = "node"
    /\ status["review_dialogue"] = "raised"
    /\ pc = "failed"
    /\ Len(CallsOf("review_dialogue")) = 4
    /\ Len(dialogue_history) = 3
    /\ sink # <<>>
    /\ updates["review_dialogue"] = EmptyDict

----------------------------------------------------------------------------
\* C31

\* what review_dialogue_node does on state s, from s alone: the locals after
\* k turns, the k-th utterance and the k-th model call
LocalsAfter(s, k) ==
    [v \in {Script(s)[i].var : i \in 1..k} |-> DialogueReply(v)]

UtteranceAt(s, i) == Utterance(Script(s)[i], DialogueReply(Script(s)[i].var))

CallAt(s, i) ==
    Call("review_dialogue", Script(s)[i].prompt, Script(s)[i].llm,
         TurnInputs(Script(s)[i], s, LocalsAfter(s, i - 1)))

\* what a registered sink has received once k turns are complete: per turn
\* its header, if it has one, then its utterance, each followed by a rule
RECURSIVE EmittedAfter(_, _)
EmittedAfter(s, k) ==
    IF k = 0 THEN <<>>
    ELSE EmittedAfter(s, k - 1)
         \o (IF Script(s)[k].header # <<>> THEN <<Script(s)[k].header, <<"---">> >> ELSE <<>>)
         \o <<UtteranceAt(s, k), <<"---">> >>

\* the header streamed before a call that has not returned yet
PendingHeader(s, k) ==
    IF k <= Len(Script(s)) /\ Script(s)[k].header # <<>>
    THEN <<Script(s)[k].header, <<"---">> >> ELSE <<>>

\* C31: review_dialogue_node's model calls, its transcript and the field it
\* returns are functions of its input state alone, the same with and without
\* a registered sink; without a sink nothing is emitted; with a sink every
\* utterance is in the sink as soon as it is in the transcript, hence before
\* the next turn's model call, after the headers and utterances before it.
C31_SinkDoesNotChangeDialogue ==
    (mode = "node" /\ status["review_dialogue"] # "pending" /\ HasReport(state))
        => /\ dialogue_history = [i \in 1..turn |-> UtteranceAt(state, i)]
           /\ Len(calls) \in {turn, turn + 1}
           /\ \A i \in 1..Len(calls) : calls[i] = CallAt(state, i)
           /\ status["review_dialogue"] = "running" => Len(calls) = turn + inflight
           /\ status["review_dialogue"] = "done"
                => /\ turn = Len(Script(state))
                   /\ updates["review_dialogue"]
                        = One("review_dialogue",
                              FormatDialogue([i \in 1..turn |-> UtteranceAt(state, i)]))
           /\ ~stream_container => sink = <<>>
           /\ stream_container
                => sink = EmittedAfter(state, turn)
                          \o (IF Len(calls) = turn + 1 THEN PendingHeader(state, turn + 1)
                              ELSE <<>>)

\* a registered sink during the fourth turn's model call: the three
\* utterances so far and the headers of turns 1, 2 and 4 have been emitted
C31_Witness ==
    /\ mode = "node"
    /\ status["review_dialogue"] = "running"
    /\ stream_container
    /\ turn = 3 /\ inflight = 1
    /\ Len(calls) = 4
    /\ Len(dialogue_history) = 3
    /\ Len(sink) = 12

\* no sink registered: the node has returned its nine utterances and nothing
\* was emitted
C31_WitnessNoSink ==
    /\ mode = "node"
    /\ status["review_dialogue"] = "done"
    /\ ~stream_container
    /\ Len(dialogue_history) = 9
    /\ Len(calls) = 9
    /\ sink = <<>>

----------------------------------------------------------------------------
\* C32

\* C32: when enable_round_table is absent from the state, as it always is in
\* batch mode (main.py passes only source), or present and true, every model
\* call of review_dialogue_node is a round-table call; a Reader or
\* simple-Author call is made only when the flag is present and false.
C32_AbsentFlagIsRoundTable ==
    LET cs == CallsOf("review_dialogue")
    IN  /\ (mode = "batch" /\ pc # "idle") => "enable_round_table" \notin DOMAIN state
        /\ (HasReport(state) /\ status["review_dialogue"] # "pending")
            => /\ ("enable_round_table" \notin DOMAIN state)
                    => /\ Len(cs) <= Len(RoundTableOrder)
                       /\ \A i \in 1..Len(cs) : cs[i].prompt = RoundTableOrder[i]
                       /\ \A i \in 1..Len(dialogue_history) :
                            Speaker(dialogue_history[i]) = RoundTableOrder[i]
               /\ (\E i \in 1..Len(cs) : cs[i].prompt \in {"READER", "SIMPLE_AUTHOR"})
                    => /\ "enable_round_table" \in DOMAIN state
                       /\ state["enable_round_table"] = FALSE

\* a batch run, whose state never holds the flag, ran the whole round table
C32_Witness ==
    /\ mode = "batch"
    /\ pc = "done"
    /\ "enable_round_table" \notin DOMAIN state
    /\ status["review_dialogue"] = "done"
    /\ Len(CallsOf("review_dialogue")) = 9
    /\ CallsOf("review_dialogue")[1].prompt = "MODERATOR"
    /\ Speaker(dialogue_history[4]) = "PRACTITIONER"

----------------------------------------------------------------------------
\* load_paper (src/src/loader.py), with the libraries it calls as inputs

\* the most pages a PDF has
MaxPages == 2

\* a source is the text of its "/"-separated components
ArxivAbsSource == <<"https:", "arxiv.org", "abs", "2310.00000">>
ArxivPdfSource == <<"https:", "arxiv.org", "pdf", "2310.00000.pdf">>
LocalSource == <<"papers", "paper.pdf">>
LoaderSources == {ArxivAbsSource, ArxivPdfSource, LocalSource}

\* "arxiv.org" in source
IsArxiv(source) == \E i \in 1..Len(source) : source[i] = "arxiv.org"

\* source.split("/")[-1], without a ".pdf" ending
ArxivQuery(source) ==
    IF source[Len(source)] = "2310.00000.pdf" THEN "2310.00000" ELSE source[Len(source)]

\* What the file system, the network and the libraries do during one call:
\*   exists: os.path.exists(source); download: requests.get answers 200 at
\*   once, never, or from the second attempt on; pages, page_text: the PDF's
\*   pages and whether they carry text; vlm: get_vlm_llm and fitz.open work,
\*   every page call fails, or setting up fails; to_markdown: pymupdf4llm's
\*   result; pypdf: PyPDFLoader.load; arxiv_meta: ArxivLoader.load;
\*   fitz_meta: fitz.open(...).metadata
LoaderWorlds ==
  { w \in
    [ exists : BOOLEAN,
      download : {"ok", "fails", "fails_once"},
      pages : 0..MaxPages,
      page_text : {"blank", "text"},
      vlm : {"ok", "page_errors", "unavailable"},
      to_markdown : {"raises", "empty", "text"},
      pypdf : {"raises", "loads"},
      arxiv_meta : {"raises", "none", "found"},
      fitz_meta : {"raises", "ok"} ] :
    w.to_markdown = "text" => w.pages > 0 }

\* download_arxiv_pdf at its attempt-th call: TRUE iff it returns a path
Downloaded(w, attempt) ==
    w.download = "ok" \/ (w.download = "fails_once" /\ attempt >= 2)

\* parse_pdf_with_vlm: one block per page, the model's markdown or the error
\* note; "" when setting up fails
parse_pdf_with_vlm(w) ==
    IF w.vlm = "unavailable" THEN <<>>
    ELSE Join([i \in 1..w.pages |->
                    <<"## Page", ToString(i)>>
                    \o (IF w.vlm = "ok" THEN <<"LLM", "page markdown">>
                        ELSE <<"[VLM Parsing Error]">>)],
              <<"---">>)

\* pymupdf4llm.to_markdown(local_pdf_path)
ToMarkdown(w) ==
    [raised |-> w.to_markdown = "raises",
     text |-> IF w.to_markdown = "text" THEN DocText ELSE <<>>]

\* lines 139-147 and 187-195: the VLM when asked for, pymupdf4llm when the
\* VLM gave nothing or was not asked for
ExtractText(use_vlm, w) ==
    IF use_vlm /\ parse_pdf_with_vlm(w) # <<>>
    THEN [raised |-> FALSE, text |-> parse_pdf_with_vlm(w)]
    ELSE ToMarkdown(w)

\* PyPDFLoader(path).load(): one document per page
PyPdfDocs(w) ==
    [i \in 1..w.pages |-> IF w.page_text = "text" THEN <<"text of page", ToString(i)>>
                          ELSE <<>>]

\* "\n\n".join([doc.page_content for doc in docs]), docs[0].metadata if docs else {}
PyPdfFallback(source, w) ==
    [text |-> Join(PyPdfDocs(w), <<"\n\n">>),
     metadata |-> IF w.pages > 0 THEN ("source" :> source) @@ ("page" :> <<"0">>)
                  ELSE EmptyDict]

\* lines 150-163: ArxivLoader's metadata, or the one built from the query
ArxivMetadata(source, w) ==
    IF w.arxiv_meta = "found" THEN One("Title", PaperTitle)
    ELSE ("source" :> source) @@ ("title" :> <<"Arxiv:", ArxivQuery(source)>>)

\* lines 198-204
LocalMetadata(source, w) ==
    ("source" :> source) @@ ("title" :> <<source[Len(source)]>>)
    @@ ("format" :> <<"PDF 1.7">>)

\* extract_images_from_pdf: its own failures are caught
Figures(w) == [i \in 1..w.pages |-> "page" \o ToString(i) \o "_img1.png"]

LoadRaises(error) ==
    [raised |-> TRUE, error |-> error, text |-> <<>>, metadata |-> EmptyDict,
     figures |-> <<>>]

\* lines 213-227: the final check, then the images
LoadReturnsUnchecked(text, metadata, w) ==
    [raised |-> FALSE, error |-> "None", text |-> text, metadata |-> metadata,
     figures |-> Figures(w)]
LoadReturns(text, metadata, w) ==
    IF text = <<>> THEN LoadRaises("No content loaded from source.")
    ELSE [raised |-> FALSE, error |-> "None", text |-> text, metadata |-> metadata,
          figures |-> Figures(w)]

\* load_paper(source, use_vlm)
load_paper(source, use_vlm, w) ==
    IF IsArxiv(source)
    THEN IF Downloaded(w, 1) /\ ~ExtractText(use_vlm, w).raised
         THEN LoadReturns(ExtractText(use_vlm, w).text, ArxivMetadata(source, w), w)
         \* the legacy fallback: download again unless the file is there
         ELSE IF ~Downloaded(w, 1) /\ ~Downloaded(w, 2)
         THEN LoadRaises("Failed to load Arxiv paper via both Loader and Fallback")
         ELSE IF w.pypdf = "raises"
         THEN LoadRaises("Failed to load Arxiv paper via both Loader and Fallback")
         ELSE LoadReturns(PyPdfFallback(source, w).text, PyPdfFallback(source, w).metadata, w)
    ELSE IF ~w.exists THEN LoadRaises("File not found")
    ELSE IF ~ExtractText(use_vlm, w).raised /\ w.fitz_meta = "ok"
    THEN LoadReturns(ExtractText(use_vlm, w).text, LocalMetadata(source, w), w)
    ELSE IF w.pypdf = "raises" THEN LoadRaises("PyPDFLoader")
    ELSE LoadReturns(PyPdfFallback(source, w).text, PyPdfFallback(source, w).metadata, w)

InitLoader ==
    /\ mode = "loader"
    /\ pc = "idle"
    /\ state = EmptyDict
    /\ status = [n \in Nodes |-> "pending"]
    /\ updates = [n \in Nodes |-> EmptyDict]
    /\ events = <<>>
    /\ calls = <<>>
    /\ searches = <<>>
    /\ loader_raised = FALSE
    /\ step = {}
    /\ last_step = {}
    /\ final_state = EmptyDict
    /\ analysis_running = FALSE
    /\ analysis_result = <<>>
    /\ analysis_error = "None"
    /\ stream_container = FALSE
    /\ round_table_running = FALSE
    /\ run_review = <<>>
    /\ translation_batch = NoBatch
    /\ environ = BaseEnviron
    /\ resolved = <<>>
    /\ renders = 0
    /\ stop_requested = FALSE
    /\ NoHistory
    /\ loader_call = <<>>
    /\ sink = <<>>
    /\ dialogue_history = <<>>
    /\ locals = EmptyDict
    /\ turn = 0
    /\ inflight = 0

\* one call of load_paper
LoadPaper ==
    \E source \in LoaderSources, use_vlm \in BOOLEAN, w \in LoaderWorlds :
        /\ mode = "loader"
        /\ loader_call = <<>>
        /\ loader_call' = << [source |-> source, use_vlm |-> use_vlm, world |-> w,
                              result |-> load_paper(source, use_vlm, w)] >>
        /\ UNCHANGED <<historyFrame, historyVars>>

NextLoader == LoadPaper

SpecLoader == InitLoader /\ [][NextLoader]_vars

----------------------------------------------------------------------------
\* C33

\* the text the call's extraction ended with, before the final check
Returned == loader_call # <<>> /\ ~loader_call[1].result.raised

\* C33: load_paper never returns an empty text: whatever the source, the
\* parsing mode and the behaviour of the extractors, a call either raises or
\* returns a text that is not empty; no figures and no metadata come back
\* from a call that raised.
C33_LoadedTextNeverEmpty ==
    loader_call # <<>>
        => LET r == loader_call[1].result
           IN  /\ ~r.raised => r.text # <<>>
               /\ r.raised => (r.text = <<>> /\ r.error # "None")

\* the extraction was empty (the VLM gave nothing and pymupdf4llm returned
\* ""): the call raised "No content loaded from source."
C33_Witness ==
    /\ loader_call # <<>>
    /\ loader_call[1].use_vlm
    /\ loader_call[1].source = LocalSource
    /\ loader_call[1].world.exists
    /\ loader_call[1].world.vlm = "unavailable"
    /\ loader_call[1].world.to_markdown = "empty"
    /\ loader_call[1].world.fitz_meta = "ok"
    /\ loader_call[1].result.raised
    /\ loader_call[1].result.error = "No content loaded from source."

\* a text was returned
C33_WitnessReturned ==
    /\ Returned
    /\ loader_call[1].result.text = DocText
    /\ IsArxiv(loader_call[1].source)

----------------------------------------------------------------------------
\* C34

\* the interactive run reached "Store result" / the end of its except branch
EndedBySuccess == mode = "interactive" /\ pc = "done"
EndedByException == mode = "interactive" /\ pc = "failed"

\* C34: when an interactive run has ended, by the stream ending or by a
\* node's exception reaching the caller, analysis_running is false and
\* stream_container is no longer registered; after a success analysis_result
\* is set and analysis_error is not, after an exception analysis_error is set
\* and analysis_result is not; while the run is under way neither is set.
C34_RunEndLeavesSessionClean ==
    /\ EndedBySuccess
        => /\ ~analysis_running /\ ~stream_container
           /\ analysis_result = <<final_state>>
           /\ analysis_error = "None"
           /\ \A n \in Nodes : status[n] = "done"
    /\ EndedByException
        => /\ ~analysis_running /\ ~stream_container
           /\ analysis_result = <<>>
           /\ analysis_error # "None"
           /\ \E n \in Nodes : status[n] = "raised"
    /\ (mode = "interactive" /\ analysis_result # <<>>) => pc = "done"
    /\ (mode = "interactive" /\ analysis_error # "None") => pc = "failed"
    /\ (mode = "interactive" /\ pc = "running")
        => analysis_running /\ stream_container

\* the run ended by an exception from review_dialogue_node, which had
\* already written to the container
C34_Witness ==
    /\ EndedByException
    /\ status["review_dialogue"] = "raised"
    /\ sink # <<>>
    /\ ~stream_container
    /\ ~analysis_running
    /\ analysis_error # "None"

\* the run ended by success
C34_WitnessSuccess ==
    /\ EndedBySuccess
    /\ analysis_result # <<>>
    /\ "review_dialogue" \in DOMAIN analysis_result[1]
    /\ ~stream_container

----------------------------------------------------------------------------
\* C35

\* the stored result is what it was when the round table was started: only
\* review_dialogue can differ, and it is the one the run had written
StoredResultUnchanged ==
    /\ analysis_result # <<>>
    /\ run_review # <<>>
    /\ analysis_result[1] = Update(analysis_result[1], run_review[1].update)

\* the standalone invocation is over
RoundTableOver == mode = "standalone" /\ pc # "running"

\* C35: the update of a standalone round table is merged into the stored
\* result only by a node that returned; once the invocation is over after a
\* stop request or a failure of the node, round_table_running is false,
\* stream_container is no longer registered and the stored result is the one
\* from before the invocation.
C35_StopOrFailureKeepsStoredResult ==
    RoundTableOver
        => /\ ~StoredResultUnchanged => status["review_dialogue"] = "done"
           /\ (stop_requested \/ status["review_dialogue"] = "raised")
                => /\ ~round_table_running
                   /\ ~stream_container
                   /\ StoredResultUnchanged

----------------------------------------------------------------------------
\* The core section of the sidebar rendered again and again (the script
\* reruns on every widget change), then get_llm

\* the number of renders of the core section followed
MaxSelections == 2

InitProvider ==
    /\ mode = "provider"
    /\ pc = "idle"
    /\ state = EmptyDict
    /\ status = [n \in Nodes |-> "pending"]
    /\ updates = [n \in Nodes |-> EmptyDict]
    /\ events = <<>>
    /\ calls = <<>>
    /\ searches = <<>>
    /\ loader_raised = FALSE
    /\ step = {}
    /\ last_step = {}
    /\ final_state = EmptyDict
    /\ analysis_running = FALSE
    /\ analysis_result = <<>>
    /\ analysis_error = "None"
    /\ stream_container = FALSE
    /\ round_table_running = FALSE
    /\ run_review = <<>>
    /\ translation_batch = NoBatch
    /\ environ \in {EmptyDict, BaseEnviron}
    /\ resolved = <<>>
    /\ renders = 0
    /\ stop_requested = FALSE
    /\ NoHistory
    /\ loader_call = <<>>
    /\ sink = <<>>
    /\ dialogue_history = <<>>
    /\ locals = EmptyDict
    /\ turn = 0
    /\ inflight = 0

\* render_model_config_ui("...", "", "core") with the selectbox on provider
SelectCoreProvider ==
    \E provider \in Providers, typed \in BOOLEAN :
        /\ mode = "provider"
        /\ renders < MaxSelections
        /\ renders' = renders + 1
        /\ environ' = render_model_config_ui(environ, "", TRUE, provider, typed)
        /\ resolved' = <<>>
        /\ UNCHANGED <<stop_requested, resolverFrame>>

\* get_llm()
GetLlm ==
    \E installed \in BOOLEAN :
        /\ mode = "provider"
        /\ resolved' = << [role |-> "core", environ |-> environ, installed |-> installed,
                           result |-> get_llm(environ, installed)] >>
        /\ UNCHANGED <<environ, renders, stop_requested, resolverFrame>>

NextProvider ==
    \/ SelectCoreProvider
    \/ GetLlm

SpecProvider == InitProvider /\ [][NextProvider]_vars

----------------------------------------------------------------------------
\* C36

\* C36: whenever the last provider selected in the core section is OpenAI,
\* whatever was selected before it, the handle get_llm returns carries no
\* base-URL override.
C36_OpenAIHandleHasNoLeftoverBase ==
    (mode = "provider" /\ renders > 0 /\ resolved # <<>>
        /\ Getenv(environ, "LLM_PROVIDER", "None") = "OpenAI")
        => /\ resolved[1].result.kind = "ChatOpenAI"
           /\ resolved[1].result.base_url = "None"

====
